---- MODULE Spec2Model ----
(***************************************************************************)
(* Scene import and C FFI boundary of Truvixx (truvixx-assimp and          *)
(* truvixx-interface).  A scene file is imported by SceneImporter::load    *)
(* into a flat SceneData aggregate, which the truvixx_* entry points       *)
(* expose through an opaque handle and caller-supplied buffers.            *)
(*                                                                         *)
(* Conventions of the model:                                               *)
(*   - a float is modelled by an integer; material factors are in tenths  *)
(*     (0.5f is 5, 1.0f is 10);                                            *)
(*   - a string is a sequence of byte values, a path is its string;        *)
(*   - a pointer is NULL (0) or an address; an array that the source holds *)
(*     behind a possibly-null pointer is <<>> when the pointer is null;    *)
(*   - an optional value is a sequence of length 0 or 1;                   *)
(*   - caller memory starts as Poison in every cell, a value that no       *)
(*     stored datum takes, so that every write is visible.                 *)
(***************************************************************************)
EXTENDS Integers, Sequences, FiniteSets, TLC

\* ---------------------------------------------------------------------
\* Bounds of the model
\* ---------------------------------------------------------------------
MaxVerts == 2
MaxMeshes == 2
MaxNodes == 4
ExtraLen == 3

\* ---------------------------------------------------------------------
\* Program constants
\* ---------------------------------------------------------------------
NAME_SIZE == 256
AI_SCENE_FLAGS_INCOMPLETE == 1
DEFAULT_ONE == 10
DEFAULT_ROUGHNESS == 5
DEFAULT_ZERO == 0

NULL == 0
SCENE_PTR == 1
Poison == 0 - 1
\* an index far beyond every count of the model
LargeIndex == 1000 * 1000
SEP == 47

Min(a, b) == IF a < b THEN a ELSE b

\* ---------------------------------------------------------------------
\* Caller memory
\* ---------------------------------------------------------------------
PoisonMem(n) == [i \in 1..n |-> Poison]

\* std::memcpy(dest, src, n elements): the first n cells of dest are
\* overwritten, the rest keep their contents.
memcpy(dest, src, n) ==
    [i \in 1..Len(dest) |-> IF i <= n THEN src[i] ELSE dest[i]]

\* number of cells of a caller buffer that were written
Written(mem) == Cardinality({i \in 1..Len(mem) : mem[i] # Poison})

\* the cells written are exactly the first n
WrittenPrefix(mem, n) ==
    /\ n <= Len(mem)
    /\ \A i \in 1..Len(mem) : (mem[i] # Poison) <=> (i <= n)

\* a slip: no byte kept back for the terminator, which then lands one
\* past the end of a full field
safe_strcpy_no_room(dest, dest_size, src) ==
    IF dest_size = 0 THEN dest
    ELSE LET copy_len == Min(Len(src), dest_size)
             extent == IF copy_len + 1 > Len(dest) THEN copy_len + 1 ELSE Len(dest)
         IN  [i \in 1..extent |->
                 IF i <= copy_len THEN src[i]
                 ELSE IF i = copy_len + 1 THEN 0
                 ELSE dest[i]]

safe_strcpy(dest, dest_size, src) ==
    IF dest_size = 0 THEN dest
    ELSE LET copy_len == Min(Len(src), dest_size - 1)
         IN  [i \in 1..Len(dest) |->
                 IF i <= copy_len THEN src[i]
                 ELSE IF i = copy_len + 1 THEN 0
                 ELSE dest[i]]

\* ---------------------------------------------------------------------
\* Paths (std::filesystem::path over '/'-separated byte strings)
\* ---------------------------------------------------------------------
RECURSIVE LastSep(_, _)
LastSep(s, i) ==
    IF i = 0 THEN 0
    ELSE IF s[i] = SEP THEN i
    ELSE LastSep(s, i - 1)

is_absolute(p) == Len(p) > 0 /\ p[1] = SEP

parent_path(p) ==
    LET k == LastSep(p, Len(p))
    IN  IF k = 0 THEN <<>>
        ELSE IF k = 1 THEN <<SEP>>
        ELSE SubSeq(p, 1, k - 1)

\* operator/ of std::filesystem::path
path_append(d, t) ==
    IF is_absolute(t) THEN t
    ELSE IF Len(d) = 0 THEN t
    ELSE IF d[Len(d)] = SEP THEN d \o t
    ELSE d \o <<SEP>> \o t

\* ---------------------------------------------------------------------
\* Matrices (aiMatrix4x4, row-major: M[r][c], rows a..d, columns 1..4)
\* ---------------------------------------------------------------------
Identity4 ==
    << <<1, 0, 0, 0>>, <<0, 1, 0, 0>>, <<0, 0, 1, 0>>, <<0, 0, 0, 1>> >>

MatMul(A, B) ==
    [r \in 1..4 |-> [c \in 1..4 |->
        A[r][1] * B[1][c] + A[r][2] * B[2][c]
      + A[r][3] * B[3][c] + A[r][4] * B[4][c]]]

\* ---------------------------------------------------------------------
\* The imported source: what Assimp::Importer::ReadFile hands to the
\* importer (aiScene, aiNode, aiMesh, aiMaterial)
\* ---------------------------------------------------------------------
LocalTransforms ==
    << << <<1, 0, 0, 1>>, <<0, 1, 0, 2>>, <<0, 0, 1, 3>>, <<0, 0, 0, 1>> >>,
       << <<2, 1, 0, 0>>, <<0, 1, 0, 0>>, <<0, 0, 3, 0>>, <<0, 0, 0, 1>> >>,
       << <<0, 1, 0, 0>>, <<1, 0, 0, 5>>, <<0, 0, 1, 0>>, <<0, 0, 0, 1>> >> >>

\* component c of element i of attribute `base` of mesh k
Datum(base, k, i, c) == 1000 * (k + 1) + base + 10 * i + c

Vec3Array(base, k, nv) ==
    [i \in 1..nv |-> <<Datum(base, k, i, 0), Datum(base, k, i, 1), Datum(base, k, i, 2)>>]

FaceProfiles(nv) ==
    IF nv = 0 THEN << <<>>, <<>>, <<>> >>
    ELSE << << <<0, 1 % nv, 2 % nv>>, <<2 % nv, 1 % nv, 0>> >>,
            << <<0, 1 % nv>>, <<0, 1 % nv, 2 % nv>>, <<0>>,
               <<0, 1 % nv, 2 % nv, 0>>, <<1 % nv, 0, 0>> >>,
            << <<0, 1 % nv>> >> >>

AllAttrs == {"n", "t", "uv"}

AiMesh(k, nv, attrs, fsel, mat) ==
    [mNumVertices    |-> nv,
     mVertices       |-> Vec3Array(100, k, nv),
     mNormals        |-> IF "n" \in attrs THEN Vec3Array(200, k, nv) ELSE <<>>,
     mTangents       |-> IF "t" \in attrs THEN Vec3Array(300, k, nv) ELSE <<>>,
     mBitangents     |-> IF "t" \in attrs THEN Vec3Array(400, k, nv) ELSE <<>>,
     mTextureCoords0 |-> IF "uv" \in attrs THEN Vec3Array(500, k, nv) ELSE <<>>,
     mNumFaces       |-> Len(FaceProfiles(nv)[fsel + 1]),
     mFaces          |-> FaceProfiles(nv)[fsel + 1],
     mMaterialIndex  |-> mat]

\* aiMesh::HasNormals, HasTangentsAndBitangents, HasTextureCoords(0)
HasNormals(mesh) == mesh.mNormals # <<>> /\ mesh.mNumVertices > 0
HasTangentsAndBitangents(mesh) ==
    mesh.mTangents # <<>> /\ mesh.mBitangents # <<>> /\ mesh.mNumVertices > 0
HasTextureCoords0(mesh) == mesh.mTextureCoords0 # <<>> /\ mesh.mNumVertices > 0

ShortName(tag, i) == <<tag, 48 + i>>
LongName(n) == [i \in 1..n |-> 65 + (i % 26)]

TexRel == <<116, 46, 112>>
TexRel2 == <<117, 46, 112>>
TexAbs == <<SEP, 110, 46, 112>>

AiMaterials ==
    << [name |-> <<ShortName(77, 0)>>, diffuse |-> << <<1, 2, 3, 4>> >>,
        roughness |-> <<7>>, reflectivity |-> <<3>>,
        emissive |-> << <<5, 6, 7, 8>> >>, opacity |-> <<4>>,
        tex_diffuse |-> <<TexRel>>, tex_normals |-> <<TexAbs>>],
       [name |-> <<>>, diffuse |-> <<>>, roughness |-> <<>>,
        reflectivity |-> <<>>, emissive |-> <<>>, opacity |-> <<>>,
        tex_diffuse |-> <<>>, tex_normals |-> <<>>],
       [name |-> <<LongName(NAME_SIZE + ExtraLen)>>, diffuse |-> <<>>,
        roughness |-> <<9>>, reflectivity |-> <<>>,
        emissive |-> << <<0, 0, 0, 0>> >>, opacity |-> <<>>,
        tex_diffuse |-> <<TexRel2, TexRel>>, tex_normals |-> <<>>] >>

\* the meshes of a source scene: mesh 0 takes the varied profile, the
\* following meshes carry every attribute
SceneMeshes(nm, nv, attrs) ==
    [j \in 1..nm |->
        IF j = 1
        THEN AiMesh(0, nv, attrs, (nv + Cardinality(attrs)) % 3, nm % (nm + 1))
        ELSE AiMesh(j - 1, (MaxVerts + 2 - j) % (MaxVerts + 1), AllAttrs,
                    j % 3, (nm + 1 - j) % (nm + 1))]

SceneMaterials(nm) ==
    [j \in 1..(nm + 1) |-> AiMaterials[((j - 1) % Len(AiMaterials)) + 1]]

NodeMeshes(i, n, nm) ==
    IF nm = 0 THEN <<>>
    ELSE CASE (i + n) % 3 = 0 -> <<>>
           [] (i + n) % 3 = 1 -> <<0>>
           [] OTHER           -> <<nm - 1, 0>>

NodeChildren(i, n, kind) ==
    IF kind = "chain"
    THEN IF i + 1 <= n THEN <<i + 1>> ELSE <<>>
    ELSE [c \in 1..(IF 2 * i + 1 <= n THEN 2 ELSE IF 2 * i <= n THEN 1 ELSE 0)
            |-> 2 * i + c - 1]

NodeName(i) == IF i = 3 THEN LongName(NAME_SIZE) ELSE ShortName(78, i)

\* aiNode table; mChildren holds positions in the table, the root is node 1
SceneNodes(n, kind, nm) ==
    [i \in 1..n |->
        [mName           |-> NodeName(i),
         mTransformation |-> LocalTransforms[(i % Len(LocalTransforms)) + 1],
         mNumMeshes      |-> Len(NodeMeshes(i, n, nm)),
         mMeshes         |-> NodeMeshes(i, n, nm),
         mNumChildren    |-> Len(NodeChildren(i, n, kind)),
         mChildren       |-> NodeChildren(i, n, kind)]]

AiScene(nm, nv, attrs, n, kind) ==
    [mFlags        |-> 0,
     mRootNode     |-> 1,
     nodes         |-> SceneNodes(n, kind, nm),
     mNumMeshes    |-> nm,
     mMeshes       |-> SceneMeshes(nm, nv, attrs),
     mNumMaterials |-> nm + 1,
     mMaterials    |-> SceneMaterials(nm)]

\* the source scenes of the model: every vertex count and attribute set of
\* mesh 0 under the largest tree, and every mesh count and tree shape
AiScenes ==
    {AiScene(MaxMeshes, nv, attrs, MaxNodes, "heap") :
        nv \in 0..MaxVerts, attrs \in SUBSET AllAttrs}
    \cup {AiScene(nm, MaxVerts, AllAttrs, n, kind) :
        nm \in 0..MaxMeshes, n \in 1..MaxNodes, kind \in {"chain", "heap"}}

\* materials for every combination of numeric keys present and absent;
\* every value present differs from the default of its field
NumericKeys == {"diffuse", "roughness", "reflectivity", "emissive", "opacity"}

KeyedMaterial(keys) ==
    [name         |-> <<ShortName(75, Cardinality(keys))>>,
     diffuse      |-> IF "diffuse" \in keys THEN << <<1, 2, 3, 4>> >> ELSE <<>>,
     roughness    |-> IF "roughness" \in keys THEN <<7>> ELSE <<>>,
     reflectivity |-> IF "reflectivity" \in keys THEN <<3>> ELSE <<>>,
     emissive     |-> IF "emissive" \in keys THEN << <<5, 6, 7, 8>> >> ELSE <<>>,
     opacity      |-> IF "opacity" \in keys THEN <<4>> ELSE <<>>,
     tex_diffuse  |-> <<>>,
     tex_normals  |-> <<>>]

\* a scene of one node and no mesh around each such material
KeyedScenes ==
    {[AiScene(0, 0, {}, 1, "chain") EXCEPT
         !.mMaterials = <<KeyedMaterial(keys)>>] : keys \in SUBSET NumericKeys}

AssimpErr == <<69, 33>>

\* every result Assimp::Importer::ReadFile can give for a regular file
ReadFileResults ==
    {[scene |-> <<s>>, error |-> <<>>] : s \in AiScenes}
    \cup {[scene |-> <<>>, error |-> AssimpErr],
          [scene |-> <<[AiScene(1, 1, {"n"}, 1, "chain")
                          EXCEPT !.mFlags = AI_SCENE_FLAGS_INCOMPLETE]>>,
           error |-> AssimpErr],
          [scene |-> <<[AiScene(0, 0, {}, 1, "chain")
                          EXCEPT !.mRootNode = NULL]>>,
           error |-> <<>>]}

\* ---------------------------------------------------------------------
\* SceneData (scene_data.hpp)
\* ---------------------------------------------------------------------
EmptyMeshData ==
    [positions |-> <<>>, normals |-> <<>>, tangents |-> <<>>,
     bitangents |-> <<>>, uvs |-> <<>>, indices |-> <<>>]

vertex_count(mesh) == Len(mesh.positions) \div 3
index_count(mesh) == Len(mesh.indices)

DefaultMaterialData ==
    [name        |-> <<>>,
     base_color  |-> <<DEFAULT_ONE, DEFAULT_ONE, DEFAULT_ONE, DEFAULT_ONE>>,
     roughness   |-> DEFAULT_ROUGHNESS,
     metallic    |-> DEFAULT_ZERO,
     emissive    |-> <<DEFAULT_ZERO, DEFAULT_ZERO, DEFAULT_ZERO, DEFAULT_ONE>>,
     opacity     |-> DEFAULT_ONE,
     diffuse_map |-> <<>>,
     normal_map  |-> <<>>]

inst_mesh_count(inst) == Len(inst.mesh_indices)

EmptySceneData == [meshes |-> <<>>, materials |-> <<>>, instances |-> <<>>]

mesh_count(data) == Len(data.meshes)
material_count(data) == Len(data.materials)
instance_count(data) == Len(data.instances)

\* ---------------------------------------------------------------------
\* SceneImporter (scene_importer.cpp)
\* ---------------------------------------------------------------------
\* [x0,y0,z0, x1,y1,z1, ...] of the first w components of each element
Flatten(arr, n, w) ==
    [i \in 1..(n * w) |-> arr[((i - 1) \div w) + 1][((i - 1) % w) + 1]]

IsTriangle(face) == Len(face) = 3

\* the indices of every face, one face after the other
RECURSIVE face_indices(_)
face_indices(faces) ==
    IF Len(faces) = 0 THEN <<>> ELSE faces[1] \o face_indices(Tail(faces))

\* a slip: the test of mNumIndices left out, every face pushed whole
process_mesh_every_face(mesh) ==
    LET vc == mesh.mNumVertices
    IN  [positions  |-> Flatten(mesh.mVertices, vc, 3),
         normals    |-> IF HasNormals(mesh)
                        THEN Flatten(mesh.mNormals, vc, 3) ELSE <<>>,
         tangents   |-> IF HasTangentsAndBitangents(mesh)
                        THEN Flatten(mesh.mTangents, vc, 3) ELSE <<>>,
         bitangents |-> IF HasTangentsAndBitangents(mesh)
                        THEN Flatten(mesh.mBitangents, vc, 3) ELSE <<>>,
         uvs        |-> IF HasTextureCoords0(mesh)
                        THEN Flatten(mesh.mTextureCoords0, vc, 2)
                        ELSE [i \in 1..(vc * 2) |-> 0],
         indices    |-> face_indices(mesh.mFaces)]

process_mesh(mesh) ==
    LET vc == mesh.mNumVertices
        tris == SelectSeq(mesh.mFaces, IsTriangle)
    IN  [positions  |-> Flatten(mesh.mVertices, vc, 3),
         normals    |-> IF HasNormals(mesh)
                        THEN Flatten(mesh.mNormals, vc, 3) ELSE <<>>,
         tangents   |-> IF HasTangentsAndBitangents(mesh)
                        THEN Flatten(mesh.mTangents, vc, 3) ELSE <<>>,
         bitangents |-> IF HasTangentsAndBitangents(mesh)
                        THEN Flatten(mesh.mBitangents, vc, 3) ELSE <<>>,
         uvs        |-> IF HasTextureCoords0(mesh)
                        THEN Flatten(mesh.mTextureCoords0, vc, 2)
                        ELSE [i \in 1..(vc * 2) |-> 0],
         indices    |-> Flatten(tris, Len(tris), 3)]

get_texture_path(slot, dir) ==
    IF Len(slot) = 0 THEN <<>> ELSE path_append(dir, slot[1])

process_material(material, dir) ==
    LET d == DefaultMaterialData
    IN  [name        |-> IF Len(material.name) = 1
                         THEN material.name[1] ELSE d.name,
         base_color  |-> IF Len(material.diffuse) = 1
                         THEN material.diffuse[1] ELSE d.base_color,
         roughness   |-> IF Len(material.roughness) = 1
                         THEN material.roughness[1] ELSE d.roughness,
         metallic    |-> IF Len(material.reflectivity) = 1
                         THEN material.reflectivity[1] ELSE d.metallic,
         emissive    |-> IF Len(material.emissive) = 1
                         THEN material.emissive[1] ELSE d.emissive,
         opacity     |-> IF Len(material.opacity) = 1
                         THEN material.opacity[1] ELSE d.opacity,
         diffuse_map |-> get_texture_path(material.tex_diffuse, dir),
         normal_map  |-> get_texture_path(material.tex_normals, dir)]

\* a slip: the matrix copied row by row, as Assimp holds it
ColumnMajor_row_by_row(world) ==
    << world[1][1], world[1][2], world[1][3], world[1][4],
       world[2][1], world[2][2], world[2][3], world[2][4],
       world[3][1], world[3][2], world[3][3], world[3][4],
       world[4][1], world[4][2], world[4][3], world[4][4] >>

\* the sixteen assignments of process_node: world_transform[0..3] = a1 b1
\* c1 d1, [4..7] = a2 b2 c2 d2, [8..11] = a3 b3 c3 d3, [12..15] = a4 b4 c4 d4
\* (a..d are the rows 1..4 of world, 1..4 its columns)
ColumnMajor(world) ==
    << world[1][1], world[2][1], world[3][1], world[4][1],
       world[1][2], world[2][2], world[3][2], world[4][2],
       world[1][3], world[2][3], world[3][3], world[4][3],
       world[1][4], world[2][4], world[3][4], world[4][4] >>

\* a slip: the two factors of the world transform exchanged
process_node_local_first(node, parent_transform, ai) ==
    LET world == MatMul(node.mTransformation, parent_transform)
    IN  [name             |-> node.mName,
         world_transform  |-> ColumnMajor(world),
         mesh_indices     |-> [i \in 1..node.mNumMeshes |-> node.mMeshes[i]],
         material_indices |-> [i \in 1..node.mNumMeshes |->
                                 ai.mMeshes[node.mMeshes[i] + 1].mMaterialIndex]]

\* a slip: the mesh index pushed into both sequences
process_node_same_index(node, parent_transform, ai) ==
    LET world == MatMul(parent_transform, node.mTransformation)
    IN  [name             |-> node.mName,
         world_transform  |-> ColumnMajor(world),
         mesh_indices     |-> [i \in 1..node.mNumMeshes |-> node.mMeshes[i]],
         material_indices |-> [i \in 1..node.mNumMeshes |-> node.mMeshes[i]]]

process_node(node, parent_transform, ai) ==
    LET world == MatMul(parent_transform, node.mTransformation)
    IN  [name             |-> node.mName,
         world_transform  |-> ColumnMajor(world),
         mesh_indices     |-> [i \in 1..node.mNumMeshes |-> node.mMeshes[i]],
         material_indices |-> [i \in 1..node.mNumMeshes |->
                                 ai.mMeshes[node.mMeshes[i] + 1].mMaterialIndex]]

\* a slip: the children put at the front of the queue (a depth-first walk)
RECURSIVE process_queue_depth_first(_, _, _)
process_queue_depth_first(queue, instances, ai) ==
    IF Len(queue) = 0 THEN instances
    ELSE LET node == ai.nodes[queue[1][1]]
             parent_transform == queue[1][2]
             current_transform == MatMul(parent_transform, node.mTransformation)
         IN  process_queue_depth_first(
                 [i \in 1..node.mNumChildren |->
                    <<node.mChildren[i], current_transform>>] \o Tail(queue),
                 Append(instances, process_node(node, parent_transform, ai)),
                 ai)

\* the breadth-first walk: queue holds <<node, parent transform>> pairs
RECURSIVE process_queue(_, _, _)
process_queue(queue, instances, ai) ==
    IF Len(queue) = 0 THEN instances
    ELSE LET node == ai.nodes[queue[1][1]]
             parent_transform == queue[1][2]
             current_transform == MatMul(parent_transform, node.mTransformation)
         IN  process_queue(
                 Tail(queue) \o [i \in 1..node.mNumChildren |->
                                   <<node.mChildren[i], current_transform>>],
                 Append(instances, process_node(node, parent_transform, ai)),
                 ai)

process_nodes(ai) ==
    IF ai.mRootNode = NULL THEN <<>>
    ELSE process_queue(<< <<ai.mRootNode, Identity4>> >>, <<>>, ai)

NewImporter ==
    [scene_data |-> EmptySceneData,
     ai_scene   |-> <<>>,
     dir_       |-> <<>>,
     error_msg_ |-> <<>>,
     is_loaded_ |-> FALSE]

\* a slip: is_loaded_ = false left out
clear_keeps_is_loaded(imp) ==
    [imp EXCEPT !.scene_data = EmptySceneData,
                !.ai_scene = <<>>,
                !.error_msg_ = <<>>]

\* a slip: scene_data_.clear() left out
clear_keeps_scene_data(imp) ==
    [imp EXCEPT !.ai_scene = <<>>,
                !.is_loaded_ = FALSE,
                !.error_msg_ = <<>>]

clear(imp) ==
    [imp EXCEPT !.scene_data = EmptySceneData,
                !.ai_scene = <<>>,
                !.is_loaded_ = FALSE,
                !.error_msg_ = <<>>]

FileNotFound == <<70, 105, 108, 101, 32, 110, 111, 116, 32, 102, 111, 117, 110, 100, 58, 32>>
AssimpError == <<65, 115, 115, 105, 109, 112, 32, 101, 114, 114, 111, 114, 58, 32>>

\* what the file system and the import library answer for one path
FileStates ==
    {[status |-> st, read |-> [scene |-> <<>>, error |-> AssimpErr]] :
        st \in {"error", "missing", "directory"}}
    \cup {[status |-> "regular", read |-> r] : r \in ReadFileResults}

\* a slip: the test of mRootNode left out
ImportFails_no_root_test(read) ==
    \/ Len(read.scene) = 0
    \/ read.scene[1].mFlags % (2 * AI_SCENE_FLAGS_INCOMPLETE) >= AI_SCENE_FLAGS_INCOMPLETE

ImportFails(read) ==
    \/ Len(read.scene) = 0
    \/ read.scene[1].mFlags % (2 * AI_SCENE_FLAGS_INCOMPLETE) >= AI_SCENE_FLAGS_INCOMPLETE
    \/ read.scene[1].mRootNode = NULL

\* SceneImporter::load: the importer afterwards, the value returned, and
\* whether std::filesystem::exists threw instead of returning
load(imp, path, file) ==
    LET c == clear(imp)
    IN  IF file.status = "error"
        THEN [imp |-> c, ret |-> FALSE, threw |-> TRUE]
        ELSE IF file.status # "regular"
        THEN [imp |-> [c EXCEPT !.error_msg_ = FileNotFound \o path],
              ret |-> FALSE, threw |-> FALSE]
        ELSE IF ImportFails(file.read)
        THEN [imp |-> [c EXCEPT !.dir_ = parent_path(path),
                                !.ai_scene = file.read.scene,
                                !.error_msg_ = AssimpError \o file.read.error],
              ret |-> FALSE, threw |-> FALSE]
        ELSE LET ai == file.read.scene[1]
                 dir == parent_path(path)
             IN  [imp |-> [scene_data |->
                              [materials |-> c.scene_data.materials
                                             \o [i \in 1..ai.mNumMaterials |->
                                                   process_material(ai.mMaterials[i], dir)],
                               meshes    |-> c.scene_data.meshes
                                             \o [i \in 1..ai.mNumMeshes |->
                                                   process_mesh(ai.mMeshes[i])],
                               instances |-> c.scene_data.instances
                                             \o process_nodes(ai)],
                           ai_scene   |-> file.read.scene,
                           dir_       |-> dir,
                           error_msg_ |-> c.error_msg_,
                           is_loaded_ |-> TRUE],
                  ret |-> TRUE, threw |-> FALSE]

\* ---------------------------------------------------------------------
\* The C FFI boundary (truvixx_api.cpp)
\* ---------------------------------------------------------------------
VARIABLES
    handle,     \* the TruvixxScene value the caller holds
    live,       \* whether the TruvixxScene_ object behind it is allocated
    importer,   \* TruvixxScene_::importer of that object
    call,       \* the last entry point called: arguments and result
    out,        \* the caller memory handed to that call, after the call
    kept        \* results of earlier calls that the caller still holds

vars == <<handle, live, importer, call, out, kept>>

\* capacities of the caller's buffers: one cell more than any mesh needs
FloatCap == 3 * MaxVerts + 1
IndexCap == 3 * Len(FaceProfiles(1)[2]) + 1
RefCap == Len(NodeMeshes(1, 1, 1)) + 1

AbsPath == <<SEP, 100, SEP, 115>>
RelPath == <<100, SEP, 115>>
BarePath == <<115>>

\* the calls of truvixx_scene_load: a null path, every file state behind an
\* absolute path, and a missing and a textured file behind relative paths
LoadArgs ==
    {[path |-> <<>>, file |-> f] :
        f \in {g \in FileStates : g.status = "missing"}}
    \cup {[path |-> <<AbsPath>>, file |-> f] : f \in FileStates}
    \cup {[path |-> <<p>>, file |-> f] :
            p \in {RelPath, BarePath},
            f \in {g \in FileStates :
                     \/ g.status = "missing"
                     \/ g.read = [scene |-> <<AiScene(1, MaxVerts, AllAttrs, 1, "chain")>>,
                                  error |-> <<>>]}}
HandleArgs == {NULL} \cup (IF live THEN {handle} ELSE {})
MeshIndexArgs == 0..MaxMeshes \cup {LargeIndex}
MaterialIndexArgs == 0..(MaxMeshes + 1) \cup {LargeIndex}
InstanceIndexArgs == 0..MaxNodes \cup {LargeIndex}

\* an out argument: a null pointer, or caller memory
OutArg(ptr, mem) == [ptr |-> ptr, mem |-> IF ptr THEN mem ELSE <<>>]
NullArg == OutArg(FALSE, <<>>)

PoisonMaterial ==
    [name        |-> PoisonMem(NAME_SIZE),
     base_color  |-> PoisonMem(4),
     roughness   |-> Poison,
     metallic    |-> Poison,
     emissive    |-> PoisonMem(4),
     opacity     |-> Poison,
     diffuse_map |-> PoisonMem(NAME_SIZE),
     normal_map  |-> PoisonMem(NAME_SIZE)]

PoisonInstance ==
    [name            |-> PoisonMem(NAME_SIZE),
     world_transform |-> PoisonMem(16),
     mesh_count      |-> Poison,
     _pad0           |-> Poison]

PoisonMeshInfo ==
    [vertex_count |-> Poison, index_count |-> Poison, has_normals |-> Poison,
     has_tangents |-> Poison, has_uvs |-> Poison, _pad0 |-> Poison]

NoOut ==
    [material |-> NullArg, instance |-> NullArg, mesh_info |-> NullArg,
     positions |-> NullArg, normals |-> NullArg, tangents |-> NullArg,
     uvs |-> NullArg, indices |-> NullArg,
     mesh_indices |-> NullArg, material_indices |-> NullArg,
     vertex_cnt |-> NullArg]

\* the record of a call: the entry point, its handle and index arguments,
\* the value returned (ret, or str for a returned string), the path given to
\* truvixx_scene_load (<<>> for a null pointer), for SceneImporter::load the
\* state of the file at that path (<<file>>), whether an exception left
\* the call, whether the call dereferenced a null handle, and whether the
\* process died in the call
Call(op, scene, index, ret) ==
    [op |-> op, scene |-> scene, index |-> index, ret |-> ret, str |-> <<>>,
     path |-> <<>>, file |-> <<>>, threw |-> FALSE, null_deref |-> FALSE,
     crashed |-> FALSE]

NoCall == Call("none", NULL, 0, 0)

\* a result the caller holds on to: what it is, the scene object whose
\* storage it points into (NULL when it points into none), and its value
STRING_PTR == 2
DATA_PTR == 3
Kept(kind, owner, value) == [kind |-> kind, owner |-> owner, value |-> value]

\* <<>> for nullptr, <<data>> for a pointer to the scene data
get_scene_data(scene) ==
    IF scene = NULL \/ ~importer.is_loaded_ THEN <<>>
    ELSE <<importer.scene_data>>

\* The caller reads the result of a call and lets the memory it handed to
\* that call go out of scope before it makes the next call (the
\* per-iteration locals of main.cpp).  No entry point reads the memory of
\* an earlier call, so this ordering loses no result.
Idle ==
    /\ call.op \in {"none", "scene_load", "scene_free"}
    /\ ~call.crashed
    /\ kept = <<>>

caller_release ==
    /\ ~Idle
    /\ ~call.crashed
    /\ call' = NoCall
    /\ out' = NoOut
    /\ kept' = <<>>
    /\ UNCHANGED <<handle, live, importer>>

Init ==
    /\ handle = NULL
    /\ live = FALSE
    /\ importer = NewImporter
    /\ call = NoCall
    /\ out = NoOut
    /\ kept = <<>>

\* a slip: the object deleted and NULL returned when the load fails
scene_load_null_on_failure(path, file) ==
    IF Len(path) = 0
    THEN [ret |-> NULL, alloc |-> FALSE, imp |-> NewImporter, threw |-> FALSE]
    ELSE LET r == load(NewImporter, path[1], file)
         IN  IF r.threw
             THEN [ret |-> NULL, alloc |-> FALSE, imp |-> NewImporter, threw |-> TRUE]
             ELSE IF ~r.ret
             THEN [ret |-> NULL, alloc |-> FALSE, imp |-> NewImporter, threw |-> FALSE]
             ELSE [ret |-> SCENE_PTR, alloc |-> TRUE, imp |-> r.imp, threw |-> FALSE]

\* a slip: one SceneData shared by every handle, each load appending to it
scene_load_static_scene_data(path, file) ==
    IF Len(path) = 0
    THEN [ret |-> NULL, alloc |-> FALSE, imp |-> NewImporter, threw |-> FALSE]
    ELSE LET r == load(NewImporter, path[1], file)
             shared == importer.scene_data
         IN  IF r.threw
             THEN [ret |-> NULL, alloc |-> FALSE, imp |-> NewImporter, threw |-> TRUE]
             ELSE [ret |-> SCENE_PTR, alloc |-> TRUE,
                   imp |-> [r.imp EXCEPT
                              !.scene_data =
                                 [materials |-> shared.materials \o @.materials,
                                  meshes    |-> shared.meshes \o @.meshes,
                                  instances |-> shared.instances \o @.instances]],
                   threw |-> FALSE]

\* the outcome of truvixx_scene_load: the handle returned, the object
\* allocated, and whether an exception left the function instead
scene_load(path, file) ==
    IF Len(path) = 0
    THEN [ret |-> NULL, alloc |-> FALSE, imp |-> NewImporter, threw |-> FALSE]
    ELSE LET r == load(NewImporter, path[1], file)
         IN  IF r.threw
             THEN [ret |-> NULL, alloc |-> FALSE, imp |-> NewImporter, threw |-> TRUE]
             ELSE [ret |-> SCENE_PTR, alloc |-> TRUE, imp |-> r.imp, threw |-> FALSE]

\* The caller has at most one scene at a time.  When the load throws, the
\* object allocated by `new` is lost to the caller, who receives no handle.
truvixx_scene_load ==
    /\ Idle
    /\ ~live
    /\ \E a \in LoadArgs :
          LET r == scene_load(a.path, a.file)
          IN  /\ handle' = IF r.threw THEN handle ELSE r.ret
              /\ live' = r.alloc
              /\ importer' = r.imp
              /\ call' = [Call("scene_load", NULL, 0, r.ret) EXCEPT
                             !.path = a.path, !.threw = r.threw]
              /\ out' = NoOut
              /\ kept' = <<>>

\* The caller may free the scene while it still holds a pointer that the
\* call just before returned.
truvixx_scene_free ==
    /\ Idle \/ (kept # <<>> /\ ~call.crashed)
    /\ \E scene \in HandleArgs :
        /\ live' = IF scene = NULL THEN live ELSE FALSE
        /\ importer' = IF scene = NULL THEN importer ELSE NewImporter
        /\ call' = Call("scene_free", scene, 0, 0)
        /\ out' = NoOut
        /\ UNCHANGED <<handle, kept>>

\* a slip: the message reached through the test the other accessors use
scene_error_when_loaded(scene) ==
    IF scene = NULL \/ ~importer.is_loaded_ THEN <<>> ELSE importer.error_msg_

scene_error(scene) ==
    IF scene = NULL THEN <<>> ELSE importer.error_msg_

\* the object whose storage the returned const char* points into: the
\* string literal "" belongs to no scene, error().c_str() to the scene
scene_error_owner(scene) == IF scene = NULL THEN NULL ELSE scene

\* a slip: the message handed out once and then cleared
truvixx_scene_error_consuming ==
    /\ Idle
    /\ \E scene \in HandleArgs :
        /\ call' = [Call("scene_error", scene, 0, 0) EXCEPT !.str = scene_error(scene)]
        /\ out' = NoOut
        /\ kept' = <<Kept("error_string", scene_error_owner(scene), STRING_PTR)>>
        /\ importer' = IF scene = NULL THEN importer
                       ELSE [importer EXCEPT !.error_msg_ = <<>>]
        /\ UNCHANGED <<handle, live>>

truvixx_scene_error ==
    /\ Idle
    /\ \E scene \in HandleArgs :
        /\ call' = [Call("scene_error", scene, 0, 0) EXCEPT !.str = scene_error(scene)]
        /\ out' = NoOut
        /\ kept' = <<Kept("error_string", scene_error_owner(scene), STRING_PTR)>>
        /\ UNCHANGED <<handle, live, importer>>

scene_mesh_count(scene) ==
    LET data == get_scene_data(scene)
    IN  IF Len(data) = 1 THEN mesh_count(data[1]) ELSE 0

\* a slip: the mesh count returned for the material count
scene_material_count_of_meshes(scene) ==
    LET data == get_scene_data(scene)
    IN  IF Len(data) = 1 THEN mesh_count(data[1]) ELSE 0

scene_material_count(scene) ==
    LET data == get_scene_data(scene)
    IN  IF Len(data) = 1 THEN material_count(data[1]) ELSE 0

scene_instance_count(scene) ==
    LET data == get_scene_data(scene)
    IN  IF Len(data) = 1 THEN instance_count(data[1]) ELSE 0

truvixx_scene_mesh_count ==
    /\ Idle
    /\ \E scene \in HandleArgs :
        /\ call' = Call("scene_mesh_count", scene, 0, scene_mesh_count(scene))
        /\ out' = NoOut
        /\ UNCHANGED <<handle, live, importer, kept>>

truvixx_scene_material_count ==
    /\ Idle
    /\ \E scene \in HandleArgs :
        /\ call' = Call("scene_material_count", scene, 0, scene_material_count(scene))
        /\ out' = NoOut
        /\ UNCHANGED <<handle, live, importer, kept>>

truvixx_scene_instance_count ==
    /\ Idle
    /\ \E scene \in HandleArgs :
        /\ call' = Call("scene_instance_count", scene, 0, scene_instance_count(scene))
        /\ out' = NoOut
        /\ UNCHANGED <<handle, live, importer, kept>>

\* --- material and instance access -------------------------------------
\* each accessor is given as the pair (value returned, out memory after)
\* a slip: the bound tested with > instead of >=; the element one past the
\* end reads as a default material
material_get_off_by_one(scene, index, o) ==
    LET data == get_scene_data(scene)
    IN  IF ~o.ptr THEN [ret |-> 0, out |-> o]
        ELSE IF Len(data) = 0 \/ index > material_count(data[1])
        THEN [ret |-> 0, out |-> o]
        ELSE LET mat == IF index = material_count(data[1])
                        THEN DefaultMaterialData
                        ELSE data[1].materials[index + 1]
             IN  [ret |-> 1,
                  out |-> [o EXCEPT !.mem =
                    [name        |-> safe_strcpy(o.mem.name, NAME_SIZE, mat.name),
                     base_color  |-> memcpy(o.mem.base_color, mat.base_color, 4),
                     roughness   |-> mat.roughness,
                     metallic    |-> mat.metallic,
                     emissive    |-> memcpy(o.mem.emissive, mat.emissive, 4),
                     opacity     |-> mat.opacity,
                     diffuse_map |-> safe_strcpy(o.mem.diffuse_map, NAME_SIZE, mat.diffuse_map),
                     normal_map  |-> safe_strcpy(o.mem.normal_map, NAME_SIZE, mat.normal_map)]]]

material_get(scene, index, o) ==
    LET data == get_scene_data(scene)
    IN  IF ~o.ptr THEN [ret |-> 0, out |-> o]
        ELSE IF Len(data) = 0 \/ index >= material_count(data[1])
        THEN [ret |-> 0, out |-> o]
        ELSE LET mat == data[1].materials[index + 1]
             IN  [ret |-> 1,
                  out |-> [o EXCEPT !.mem =
                    [name        |-> safe_strcpy(o.mem.name, NAME_SIZE, mat.name),
                     base_color  |-> memcpy(o.mem.base_color, mat.base_color, 4),
                     roughness   |-> mat.roughness,
                     metallic    |-> mat.metallic,
                     emissive    |-> memcpy(o.mem.emissive, mat.emissive, 4),
                     opacity     |-> mat.opacity,
                     diffuse_map |-> safe_strcpy(o.mem.diffuse_map, NAME_SIZE, mat.diffuse_map),
                     normal_map  |-> safe_strcpy(o.mem.normal_map, NAME_SIZE, mat.normal_map)]]]

truvixx_material_get ==
    /\ Idle
    /\ \E scene \in HandleArgs, index \in MaterialIndexArgs, ptr \in BOOLEAN :
        LET r == material_get(scene, index, OutArg(ptr, PoisonMaterial))
        IN  /\ call' = Call("material_get", scene, index, r.ret)
            /\ out' = [NoOut EXCEPT !.material = r.out]
            /\ UNCHANGED <<handle, live, importer, kept>>

instance_get(scene, index, o) ==
    LET data == get_scene_data(scene)
    IN  IF ~o.ptr THEN [ret |-> 0, out |-> o]
        ELSE IF Len(data) = 0 \/ index >= instance_count(data[1])
        THEN [ret |-> 0, out |-> o]
        ELSE LET inst == data[1].instances[index + 1]
             IN  [ret |-> 1,
                  out |-> [o EXCEPT !.mem =
                    [name            |-> safe_strcpy(o.mem.name, NAME_SIZE, inst.name),
                     world_transform |-> memcpy(o.mem.world_transform, inst.world_transform, 16),
                     mesh_count      |-> inst_mesh_count(inst),
                     _pad0           |-> 0]]]

truvixx_instance_get ==
    /\ Idle
    /\ \E scene \in HandleArgs, index \in InstanceIndexArgs, ptr \in BOOLEAN :
        LET r == instance_get(scene, index, OutArg(ptr, PoisonInstance))
        IN  /\ call' = Call("instance_get", scene, index, r.ret)
            /\ out' = [NoOut EXCEPT !.instance = r.out]
            /\ UNCHANGED <<handle, live, importer, kept>>

\* a slip: a null output array treated as an error
instance_get_refs_needs_both(scene, index, o_mesh, o_mat) ==
    LET data == get_scene_data(scene)
    IN  IF ~o_mesh.ptr \/ ~o_mat.ptr
           \/ Len(data) = 0 \/ index >= instance_count(data[1])
        THEN [ret |-> 0, mesh_indices |-> o_mesh, material_indices |-> o_mat]
        ELSE LET inst == data[1].instances[index + 1]
             IN  [ret |-> 1,
                  mesh_indices |->
                      [o_mesh EXCEPT !.mem =
                          memcpy(o_mesh.mem, inst.mesh_indices, Len(inst.mesh_indices))],
                  material_indices |->
                      [o_mat EXCEPT !.mem =
                          memcpy(o_mat.mem, inst.material_indices, Len(inst.material_indices))]]

\* o_mesh, o_mat: out_mesh_indices and out_material_indices
instance_get_refs(scene, index, o_mesh, o_mat) ==
    LET data == get_scene_data(scene)
    IN  IF Len(data) = 0 \/ index >= instance_count(data[1])
        THEN [ret |-> 0, mesh_indices |-> o_mesh, material_indices |-> o_mat]
        ELSE LET inst == data[1].instances[index + 1]
             IN  [ret |-> 1,
                  mesh_indices |->
                      IF o_mesh.ptr
                      THEN [o_mesh EXCEPT !.mem =
                              memcpy(o_mesh.mem, inst.mesh_indices, Len(inst.mesh_indices))]
                      ELSE o_mesh,
                  material_indices |->
                      IF o_mat.ptr
                      THEN [o_mat EXCEPT !.mem =
                              memcpy(o_mat.mem, inst.material_indices, Len(inst.material_indices))]
                      ELSE o_mat]

truvixx_instance_get_refs ==
    /\ Idle
    /\ \E scene \in HandleArgs, index \in InstanceIndexArgs, p1 \in BOOLEAN, p2 \in BOOLEAN :
        LET r == instance_get_refs(scene, index, OutArg(p1, PoisonMem(RefCap)),
                                   OutArg(p2, PoisonMem(RefCap)))
        IN  /\ call' = Call("instance_get_refs", scene, index, r.ret)
            /\ out' = [NoOut EXCEPT !.mesh_indices = r.mesh_indices,
                                    !.material_indices = r.material_indices]
            /\ UNCHANGED <<handle, live, importer, kept>>

\* --- mesh access ------------------------------------------------------
\* a slip: has_tangents taken from the normals
mesh_get_info_tangents_from_normals(scene, index, o) ==
    LET data == get_scene_data(scene)
    IN  IF ~o.ptr THEN [ret |-> 0, out |-> o]
        ELSE IF Len(data) = 0 \/ index >= mesh_count(data[1])
        THEN [ret |-> 0, out |-> o]
        ELSE LET mesh == data[1].meshes[index + 1]
             IN  [ret |-> 1,
                  out |-> [o EXCEPT !.mem =
                    [vertex_count |-> vertex_count(mesh),
                     index_count  |-> index_count(mesh),
                     has_normals  |-> IF Len(mesh.normals) = 0 THEN 0 ELSE 1,
                     has_tangents |-> IF Len(mesh.normals) = 0 THEN 0 ELSE 1,
                     has_uvs      |-> IF Len(mesh.uvs) = 0 THEN 0 ELSE 1,
                     _pad0        |-> 0]]]

\* a slip: the struct zeroed before the handle and the index are tested
mesh_get_info_zero_first(scene, index, o) ==
    LET data == get_scene_data(scene)
        zeroed == [vertex_count |-> 0, index_count |-> 0, has_normals |-> 0,
                   has_tangents |-> 0, has_uvs |-> 0, _pad0 |-> 0]
    IN  IF ~o.ptr THEN [ret |-> 0, out |-> o]
        ELSE IF Len(data) = 0 \/ index >= mesh_count(data[1])
        THEN [ret |-> 0, out |-> [o EXCEPT !.mem = zeroed]]
        ELSE LET mesh == data[1].meshes[index + 1]
             IN  [ret |-> 1,
                  out |-> [o EXCEPT !.mem =
                    [vertex_count |-> vertex_count(mesh),
                     index_count  |-> index_count(mesh),
                     has_normals  |-> IF Len(mesh.normals) = 0 THEN 0 ELSE 1,
                     has_tangents |-> IF Len(mesh.tangents) = 0 THEN 0 ELSE 1,
                     has_uvs      |-> IF Len(mesh.uvs) = 0 THEN 0 ELSE 1,
                     _pad0        |-> 0]]]

mesh_get_info(scene, index, o) ==
    LET data == get_scene_data(scene)
    IN  IF ~o.ptr THEN [ret |-> 0, out |-> o]
        ELSE IF Len(data) = 0 \/ index >= mesh_count(data[1])
        THEN [ret |-> 0, out |-> o]
        ELSE LET mesh == data[1].meshes[index + 1]
             IN  [ret |-> 1,
                  out |-> [o EXCEPT !.mem =
                    [vertex_count |-> vertex_count(mesh),
                     index_count  |-> index_count(mesh),
                     has_normals  |-> IF Len(mesh.normals) = 0 THEN 0 ELSE 1,
                     has_tangents |-> IF Len(mesh.tangents) = 0 THEN 0 ELSE 1,
                     has_uvs      |-> IF Len(mesh.uvs) = 0 THEN 0 ELSE 1,
                     _pad0        |-> 0]]]

truvixx_mesh_get_info ==
    /\ Idle
    /\ \E scene \in HandleArgs, index \in MeshIndexArgs, ptr \in BOOLEAN :
        LET r == mesh_get_info(scene, index, OutArg(ptr, PoisonMeshInfo))
        IN  /\ call' = Call("mesh_get_info", scene, index, r.ret)
            /\ out' = [NoOut EXCEPT !.mesh_info = r.out]
            /\ UNCHANGED <<handle, live, importer, kept>>

mesh_fill_positions(scene, index, o) ==
    LET data == get_scene_data(scene)
    IN  IF ~o.ptr THEN [ret |-> 0, out |-> o]
        ELSE IF Len(data) = 0 \/ index >= mesh_count(data[1])
        THEN [ret |-> 0, out |-> o]
        ELSE LET positions == data[1].meshes[index + 1].positions
             IN  [ret |-> 1,
                  out |-> [o EXCEPT !.mem = memcpy(o.mem, positions, Len(positions))]]

\* a slip: the vertex count, not the float count, given to memcpy
mesh_fill_normals_vertex_count(scene, index, o) ==
    LET data == get_scene_data(scene)
    IN  IF ~o.ptr THEN [ret |-> 0, out |-> o]
        ELSE IF Len(data) = 0 \/ index >= mesh_count(data[1])
        THEN [ret |-> 0, out |-> o]
        ELSE LET normals == data[1].meshes[index + 1].normals
             IN  IF Len(normals) = 0 THEN [ret |-> 0, out |-> o]
                 ELSE [ret |-> 1,
                       out |-> [o EXCEPT !.mem =
                                  memcpy(o.mem, normals,
                                         vertex_count(data[1].meshes[index + 1]))]]

mesh_fill_normals(scene, index, o) ==
    LET data == get_scene_data(scene)
    IN  IF ~o.ptr THEN [ret |-> 0, out |-> o]
        ELSE IF Len(data) = 0 \/ index >= mesh_count(data[1])
        THEN [ret |-> 0, out |-> o]
        ELSE LET normals == data[1].meshes[index + 1].normals
             IN  IF Len(normals) = 0 THEN [ret |-> 0, out |-> o]
                 ELSE [ret |-> 1,
                       out |-> [o EXCEPT !.mem = memcpy(o.mem, normals, Len(normals))]]

mesh_fill_tangents(scene, index, o) ==
    LET data == get_scene_data(scene)
    IN  IF ~o.ptr THEN [ret |-> 0, out |-> o]
        ELSE IF Len(data) = 0 \/ index >= mesh_count(data[1])
        THEN [ret |-> 0, out |-> o]
        ELSE LET tangents == data[1].meshes[index + 1].tangents
             IN  IF Len(tangents) = 0 THEN [ret |-> 0, out |-> o]
                 ELSE [ret |-> 1,
                       out |-> [o EXCEPT !.mem = memcpy(o.mem, tangents, Len(tangents))]]

mesh_fill_uvs(scene, index, o) ==
    LET data == get_scene_data(scene)
    IN  IF ~o.ptr THEN [ret |-> 0, out |-> o]
        ELSE IF Len(data) = 0 \/ index >= mesh_count(data[1])
        THEN [ret |-> 0, out |-> o]
        ELSE LET uvs == data[1].meshes[index + 1].uvs
             IN  IF Len(uvs) = 0 THEN [ret |-> 0, out |-> o]
                 ELSE [ret |-> 1,
                       out |-> [o EXCEPT !.mem = memcpy(o.mem, uvs, Len(uvs))]]

mesh_fill_indices(scene, index, o) ==
    LET data == get_scene_data(scene)
    IN  IF ~o.ptr THEN [ret |-> 0, out |-> o]
        ELSE IF Len(data) = 0 \/ index >= mesh_count(data[1])
        THEN [ret |-> 0, out |-> o]
        ELSE LET indices == data[1].meshes[index + 1].indices
             IN  [ret |-> 1,
                  out |-> [o EXCEPT !.mem = memcpy(o.mem, indices, Len(indices))]]

truvixx_mesh_fill_positions ==
    /\ Idle
    /\ \E scene \in HandleArgs, index \in MeshIndexArgs, ptr \in BOOLEAN :
        LET r == mesh_fill_positions(scene, index, OutArg(ptr, PoisonMem(FloatCap)))
        IN  /\ call' = Call("mesh_fill_positions", scene, index, r.ret)
            /\ out' = [NoOut EXCEPT !.positions = r.out]
            /\ UNCHANGED <<handle, live, importer, kept>>

truvixx_mesh_fill_normals ==
    /\ Idle
    /\ \E scene \in HandleArgs, index \in MeshIndexArgs, ptr \in BOOLEAN :
        LET r == mesh_fill_normals(scene, index, OutArg(ptr, PoisonMem(FloatCap)))
        IN  /\ call' = Call("mesh_fill_normals", scene, index, r.ret)
            /\ out' = [NoOut EXCEPT !.normals = r.out]
            /\ UNCHANGED <<handle, live, importer, kept>>

truvixx_mesh_fill_tangents ==
    /\ Idle
    /\ \E scene \in HandleArgs, index \in MeshIndexArgs, ptr \in BOOLEAN :
        LET r == mesh_fill_tangents(scene, index, OutArg(ptr, PoisonMem(FloatCap)))
        IN  /\ call' = Call("mesh_fill_tangents", scene, index, r.ret)
            /\ out' = [NoOut EXCEPT !.tangents = r.out]
            /\ UNCHANGED <<handle, live, importer, kept>>

truvixx_mesh_fill_uvs ==
    /\ Idle
    /\ \E scene \in HandleArgs, index \in MeshIndexArgs, ptr \in BOOLEAN :
        LET r == mesh_fill_uvs(scene, index, OutArg(ptr, PoisonMem(FloatCap)))
        IN  /\ call' = Call("mesh_fill_uvs", scene, index, r.ret)
            /\ out' = [NoOut EXCEPT !.uvs = r.out]
            /\ UNCHANGED <<handle, live, importer, kept>>

truvixx_mesh_fill_indices ==
    /\ Idle
    /\ \E scene \in HandleArgs, index \in MeshIndexArgs, ptr \in BOOLEAN :
        LET r == mesh_fill_indices(scene, index, OutArg(ptr, PoisonMem(IndexCap)))
        IN  /\ call' = Call("mesh_fill_indices", scene, index, r.ret)
            /\ out' = [NoOut EXCEPT !.indices = r.out]
            /\ UNCHANGED <<handle, live, importer, kept>>

\* a slip: the tangent buffer filled from the normals
mesh_fill_all_tangents_from_normals(scene, index, o_pos, o_nrm, o_tan, o_uv, o_idx) ==
    LET data == get_scene_data(scene)
        Copy(o, src) ==
            IF o.ptr /\ Len(src) # 0
            THEN [o EXCEPT !.mem = memcpy(o.mem, src, Len(src))]
            ELSE o
    IN  IF Len(data) = 0 \/ index >= mesh_count(data[1])
        THEN [ret |-> 0, positions |-> o_pos, normals |-> o_nrm,
              tangents |-> o_tan, uvs |-> o_uv, indices |-> o_idx]
        ELSE LET mesh == data[1].meshes[index + 1]
             IN  [ret |-> 1,
                  positions |-> Copy(o_pos, mesh.positions),
                  normals   |-> Copy(o_nrm, mesh.normals),
                  tangents  |-> Copy(o_tan, mesh.normals),
                  uvs       |-> Copy(o_uv, mesh.uvs),
                  indices   |-> Copy(o_idx, mesh.indices)]

\* a slip: a buffer given for an attribute the mesh lacks treated as an
\* error, as the single fills treat it
mesh_fill_all_fails_on_absent(scene, index, o_pos, o_nrm, o_tan, o_uv, o_idx) ==
    LET data == get_scene_data(scene)
        Copy(o, src) ==
            IF o.ptr /\ Len(src) # 0
            THEN [o EXCEPT !.mem = memcpy(o.mem, src, Len(src))]
            ELSE o
        unchanged == [ret |-> 0, positions |-> o_pos, normals |-> o_nrm,
                      tangents |-> o_tan, uvs |-> o_uv, indices |-> o_idx]
    IN  IF Len(data) = 0 \/ index >= mesh_count(data[1])
        THEN unchanged
        ELSE LET mesh == data[1].meshes[index + 1]
             IN  IF \/ o_nrm.ptr /\ Len(mesh.normals) = 0
                    \/ o_tan.ptr /\ Len(mesh.tangents) = 0
                    \/ o_uv.ptr /\ Len(mesh.uvs) = 0
                 THEN unchanged
                 ELSE [ret |-> 1,
                       positions |-> Copy(o_pos, mesh.positions),
                       normals   |-> Copy(o_nrm, mesh.normals),
                       tangents  |-> Copy(o_tan, mesh.tangents),
                       uvs       |-> Copy(o_uv, mesh.uvs),
                       indices   |-> Copy(o_idx, mesh.indices)]

\* the batched fill: one out argument per attribute, each possibly null
mesh_fill_all(scene, index, o_pos, o_nrm, o_tan, o_uv, o_idx) ==
    LET data == get_scene_data(scene)
        Copy(o, src) ==
            IF o.ptr /\ Len(src) # 0
            THEN [o EXCEPT !.mem = memcpy(o.mem, src, Len(src))]
            ELSE o
    IN  IF Len(data) = 0 \/ index >= mesh_count(data[1])
        THEN [ret |-> 0, positions |-> o_pos, normals |-> o_nrm,
              tangents |-> o_tan, uvs |-> o_uv, indices |-> o_idx]
        ELSE LET mesh == data[1].meshes[index + 1]
             IN  [ret |-> 1,
                  positions |-> Copy(o_pos, mesh.positions),
                  normals   |-> Copy(o_nrm, mesh.normals),
                  tangents  |-> Copy(o_tan, mesh.tangents),
                  uvs       |-> Copy(o_uv, mesh.uvs),
                  indices   |-> Copy(o_idx, mesh.indices)]

truvixx_mesh_fill_all ==
    /\ Idle
    /\ \E scene \in HandleArgs, index \in MeshIndexArgs, p \in [1..5 -> BOOLEAN] :
        LET r == mesh_fill_all(scene, index,
                               OutArg(p[1], PoisonMem(FloatCap)),
                               OutArg(p[2], PoisonMem(FloatCap)),
                               OutArg(p[3], PoisonMem(FloatCap)),
                               OutArg(p[4], PoisonMem(FloatCap)),
                               OutArg(p[5], PoisonMem(IndexCap)))
        IN  /\ call' = Call("mesh_fill_all", scene, index, r.ret)
            /\ out' = [NoOut EXCEPT !.positions = r.positions,
                                    !.normals = r.normals,
                                    !.tangents = r.tangents,
                                    !.uvs = r.uvs,
                                    !.indices = r.indices]
            /\ UNCHANGED <<handle, live, importer, kept>>

\* --- the engine build of the interface (engine/.../truvixx_api.cpp) ------
\* SceneImporter::get_normal and get_tangent of the engine build hand out the
\* source mesh's own arrays (<<>> for a null pointer); its MeshInfo records
\* the vertex count and the presence of each attribute.
engine_get_normal(mesh_index) ==
    importer.ai_scene[1].mMeshes[mesh_index + 1].mNormals

engine_get_tangent(mesh_index) ==
    importer.ai_scene[1].mMeshes[mesh_index + 1].mTangents

engine_mesh_info(mesh_index) ==
    LET mesh == importer.ai_scene[1].mMeshes[mesh_index + 1]
    IN  [vertex_cnt  |-> mesh.mNumVertices,
         has_normal  |-> HasNormals(mesh),
         has_tangent |-> HasTangentsAndBitangents(mesh)]

engine_mesh_fill_tangents(scene, mesh_index, o) ==
    LET scene_data == get_scene_data(scene)
    IN  IF ~o.ptr THEN [ret |-> 0, out |-> o]
        ELSE IF Len(scene_data) = 0 \/ mesh_index >= mesh_count(scene_data[1])
        THEN [ret |-> 0, out |-> o]
        ELSE LET mesh_info == engine_mesh_info(mesh_index)
                 tangent_ptr == engine_get_normal(mesh_index)
             IN  IF ~mesh_info.has_tangent \/ tangent_ptr = <<>>
                 THEN [ret |-> 0, out |-> o]
                 ELSE [ret |-> 1,
                       out |-> [o EXCEPT !.mem =
                                  memcpy(o.mem,
                                         Flatten(tangent_ptr, mesh_info.vertex_cnt, 3),
                                         mesh_info.vertex_cnt * 3)]]

engine_truvixx_mesh_fill_tangents ==
    /\ Idle
    /\ \E scene \in HandleArgs, index \in MeshIndexArgs, ptr \in BOOLEAN :
        LET r == engine_mesh_fill_tangents(scene, index, OutArg(ptr, PoisonMem(FloatCap)))
        IN  /\ call' = Call("engine_mesh_fill_tangents", scene, index, r.ret)
            /\ out' = [NoOut EXCEPT !.tangents = r.out]
            /\ UNCHANGED <<handle, live, importer, kept>>

\* The engine build also returns pointers to the arrays themselves.  Its
\* MeshInfo keeps the uv and index arrays of the mesh.
engine_mesh_uvs(mesh_index) ==
    LET mesh == importer.ai_scene[1].mMeshes[mesh_index + 1]
    IN  IF HasTextureCoords0(mesh)
        THEN Flatten(mesh.mTextureCoords0, mesh.mNumVertices, 2) ELSE <<>>

engine_mesh_indices(mesh_index) ==
    LET tris == SelectSeq(importer.ai_scene[1].mMeshes[mesh_index + 1].mFaces, IsTriangle)
    IN  Flatten(tris, Len(tris), 3)

\* the pointer each getter returns: NULL, or DATA_PTR for a pointer into
\* the storage of the scene
engine_mesh_get_positions(scene, mesh_index) ==
    LET data == get_scene_data(scene)
    IN  IF Len(data) = 0 \/ mesh_index >= mesh_count(data[1]) THEN NULL
        ELSE IF engine_mesh_info(mesh_index).vertex_cnt = 0 THEN NULL
        ELSE DATA_PTR

engine_mesh_get_normals(scene, mesh_index) ==
    LET data == get_scene_data(scene)
    IN  IF Len(data) = 0 \/ mesh_index >= mesh_count(data[1]) THEN NULL
        ELSE IF engine_mesh_info(mesh_index).has_normal
                /\ engine_get_normal(mesh_index) # <<>>
        THEN DATA_PTR ELSE NULL

engine_mesh_get_tangents(scene, mesh_index) ==
    LET data == get_scene_data(scene)
    IN  IF Len(data) = 0 \/ mesh_index >= mesh_count(data[1]) THEN NULL
        ELSE IF engine_mesh_info(mesh_index).has_tangent
                /\ engine_get_tangent(mesh_index) # <<>>
        THEN DATA_PTR ELSE NULL

engine_mesh_get_uvs(scene, mesh_index) ==
    LET data == get_scene_data(scene)
    IN  IF Len(data) = 0 \/ mesh_index >= mesh_count(data[1]) THEN NULL
        ELSE IF engine_mesh_uvs(mesh_index) = <<>> THEN NULL
        ELSE DATA_PTR

engine_mesh_get_indices(scene, mesh_index) ==
    LET data == get_scene_data(scene)
    IN  IF Len(data) = 0 \/ mesh_index >= mesh_count(data[1]) THEN NULL
        ELSE IF engine_mesh_indices(mesh_index) = <<>> THEN NULL
        ELSE DATA_PTR

\* the caller holds on to the pointer it was given
ReturnPointer(op, scene, index, ret) ==
    /\ call' = Call(op, scene, index, ret)
    /\ out' = NoOut
    /\ kept' = <<Kept(op, IF ret = NULL THEN NULL ELSE scene, ret)>>
    /\ UNCHANGED <<handle, live, importer>>

engine_truvixx_mesh_get_positions ==
    /\ Idle
    /\ \E scene \in HandleArgs, index \in MeshIndexArgs :
        ReturnPointer("engine_mesh_get_positions", scene, index,
                      engine_mesh_get_positions(scene, index))

engine_truvixx_mesh_get_normals ==
    /\ Idle
    /\ \E scene \in HandleArgs, index \in MeshIndexArgs :
        ReturnPointer("engine_mesh_get_normals", scene, index,
                      engine_mesh_get_normals(scene, index))

engine_truvixx_mesh_get_tangents ==
    /\ Idle
    /\ \E scene \in HandleArgs, index \in MeshIndexArgs :
        ReturnPointer("engine_mesh_get_tangents", scene, index,
                      engine_mesh_get_tangents(scene, index))

engine_truvixx_mesh_get_uvs ==
    /\ Idle
    /\ \E scene \in HandleArgs, index \in MeshIndexArgs :
        ReturnPointer("engine_mesh_get_uvs", scene, index,
                      engine_mesh_get_uvs(scene, index))

engine_truvixx_mesh_get_indices ==
    /\ Idle
    /\ \E scene \in HandleArgs, index \in MeshIndexArgs :
        ReturnPointer("engine_mesh_get_indices", scene, index,
                      engine_mesh_get_indices(scene, index))

\* --- the deprecated interface (lib.cpp) ---------------------------------
\* get_pos_buffer calls a member function through the loader pointer without
\* testing it, and reads *vertex_cnt.  With a null loader this is undefined:
\* the process dies, or the call returns some pointer and may have stored
\* some count.
get_pos_buffer ==
    /\ Idle
    /\ \E mesh_idx \in MeshIndexArgs, crashed \in BOOLEAN,
          ret \in {NULL, SCENE_PTR}, cnt \in {Poison, 0} :
        /\ crashed => (ret = NULL /\ cnt = Poison)
        /\ call' = [Call("get_pos_buffer", NULL, mesh_idx, ret) EXCEPT
                       !.null_deref = TRUE, !.crashed = crashed]
        /\ out' = [NoOut EXCEPT !.vertex_cnt = [ptr |-> TRUE, mem |-> cnt]]
        /\ UNCHANGED <<handle, live, importer, kept>>

Next ==
    \/ caller_release
    \/ truvixx_scene_load
    \/ truvixx_scene_free
    \/ truvixx_scene_error
    \/ truvixx_scene_mesh_count
    \/ truvixx_scene_material_count
    \/ truvixx_scene_instance_count
    \/ truvixx_material_get
    \/ truvixx_instance_get
    \/ truvixx_instance_get_refs
    \/ truvixx_mesh_get_info
    \/ truvixx_mesh_fill_positions
    \/ truvixx_mesh_fill_normals
    \/ truvixx_mesh_fill_tangents
    \/ truvixx_mesh_fill_uvs
    \/ truvixx_mesh_fill_indices
    \/ truvixx_mesh_fill_all
    \/ engine_truvixx_mesh_fill_tangents
    \/ engine_truvixx_mesh_get_positions
    \/ engine_truvixx_mesh_get_normals
    \/ engine_truvixx_mesh_get_tangents
    \/ engine_truvixx_mesh_get_uvs
    \/ engine_truvixx_mesh_get_indices
    \/ get_pos_buffer

Spec == Init /\ [][Next]_vars

\* ---------------------------------------------------------------------
\* A SceneImporter used directly: any sequence of load() and clear()
\* calls on one object.  `importer` is that object, `call` the last call,
\* `kept` what the caller remembers of the call before it.
\* ---------------------------------------------------------------------
\* a scene file per combination of material keys, behind an absolute path
KeyedLoadArgs ==
    {[path |-> <<AbsPath>>,
      file |-> [status |-> "regular",
                read |-> [scene |-> <<sc>>, error |-> <<>>]]] : sc \in KeyedScenes}

ImporterLoadArgs == {a \in LoadArgs : a.path # <<>>} \cup KeyedLoadArgs

\* the deprecated load_scene is given the same files
LoaderLoadArgs == ImporterLoadArgs

importer_load_of(a) ==
    LET r == load(importer, a.path[1], a.file)
    IN  /\ importer' = r.imp
        /\ call' = [Call("load", NULL, 0, IF r.ret THEN 1 ELSE 0) EXCEPT
                       !.path = a.path, !.file = <<a.file>>, !.threw = r.threw]
        /\ kept' = <<Kept(call.op, NULL, call.ret)>>
        /\ UNCHANGED <<handle, live, out>>

importer_load == \E a \in ImporterLoadArgs : importer_load_of(a)

importer_clear ==
    /\ importer' = clear(importer)
    /\ call' = Call("clear", NULL, 0, 0)
    /\ kept' = <<Kept(call.op, NULL, call.ret)>>
    /\ UNCHANGED <<handle, live, out>>

ImporterNext ==
    \/ importer_load
    \/ importer_clear

ImporterSpec == Init /\ [][ImporterNext]_vars

\* ---------------------------------------------------------------------
\* Two scenes side by side: the caller loads a first scene, keeps it, and
\* loads a second one.  `handle`, `live` and `importer` are the object of
\* the load made last; `kept` holds the first object (its path, the state
\* of the file behind it, and its importer) once the second is loaded.
\* ---------------------------------------------------------------------
SECOND_SCENE_PTR == 4

FirstScene == kept[1].value

twin_load_first ==
    /\ call.op = "none"
    /\ kept = <<>>
    /\ \E a \in LoadArgs :
          LET r == scene_load(a.path, a.file)
          IN  /\ handle' = IF r.threw THEN handle ELSE r.ret
              /\ live' = r.alloc
              /\ importer' = r.imp
              /\ call' = [Call("scene_load", NULL, 0, r.ret) EXCEPT
                             !.path = a.path, !.file = <<a.file>>,
                             !.threw = r.threw]
              /\ out' = NoOut
              /\ kept' = <<>>

twin_load_second ==
    /\ call.op = "scene_load"
    /\ ~call.threw
    /\ kept = <<>>
    /\ \E a \in LoadArgs :
          LET r == scene_load(a.path, a.file)
          IN  /\ kept' = <<Kept("first_scene", handle,
                                [path |-> call.path, file |-> call.file,
                                 importer |-> importer])>>
              /\ handle' = IF r.threw THEN handle
                           ELSE IF r.ret = NULL THEN NULL ELSE SECOND_SCENE_PTR
              /\ live' = r.alloc
              /\ importer' = r.imp
              /\ call' = [Call("scene_load", NULL, 0,
                               IF r.ret = NULL THEN NULL ELSE SECOND_SCENE_PTR)
                            EXCEPT !.path = a.path, !.file = <<a.file>>,
                                   !.threw = r.threw]
              /\ out' = NoOut

\* both scenes freed (or, after a load that threw, nothing to free)
twin_free ==
    /\ kept # <<>> \/ call.threw
    /\ handle' = NULL
    /\ live' = FALSE
    /\ importer' = NewImporter
    /\ call' = NoCall
    /\ out' = NoOut
    /\ kept' = <<>>

TwinNext ==
    \/ twin_load_first
    \/ twin_load_second
    \/ twin_free

TwinSpec == Init /\ [][TwinNext]_vars

\* ---------------------------------------------------------------------
\* The earlier loader: truvis::SceneLoader behind load_scene, free_scene,
\* get_mat, get_mesh and get_instance (scene_loader.cpp, lib.cpp).  While
\* a loader is alive, `importer` is that SceneLoader object.
\* ---------------------------------------------------------------------
PATH_BUFFER_SIZE == 256

\* the C string a buffer of `size` bytes holds after
\* strncpy_s(dest, size, src, _TRUNCATE)
strncpy_s(size, src) == SubSeq(src, 1, Min(Len(src), size - 1))

\* DataConvert::mat4: m[0..3] = a1 b1 c1 d1, m[4..7] = a2 b2 c2 d2, ...
mat4(mat) ==
    << mat[1][1], mat[2][1], mat[3][1], mat[4][1],
       mat[1][2], mat[2][2], mat[3][2], mat[4][2],
       mat[1][3], mat[2][3], mat[3][3], mat[4][3],
       mat[1][4], mat[2][4], mat[3][4], mat[4][4] >>

scene_loader_process_node(ai_node, parent_transform, ai) ==
    [name            |-> strncpy_s(PATH_BUFFER_SIZE, ai_node.mName),
     world_transform |-> mat4(MatMul(parent_transform, ai_node.mTransformation)),
     mesh_indices    |-> [i \in 1..ai_node.mNumMeshes |-> ai_node.mMeshes[i]],
     mat_indices     |-> [i \in 1..ai_node.mNumMeshes |->
                            ai.mMeshes[ai_node.mMeshes[i] + 1].mMaterialIndex]]

RECURSIVE scene_loader_node_queue(_, _, _)
scene_loader_node_queue(node_queue, instances, ai) ==
    IF Len(node_queue) = 0 THEN instances
    ELSE LET node == ai.nodes[node_queue[1][1]]
             parent_transform == node_queue[1][2]
             current_transform == MatMul(parent_transform, node.mTransformation)
         IN  scene_loader_node_queue(
                 Tail(node_queue) \o [i \in 1..node.mNumChildren |->
                                        <<node.mChildren[i], current_transform>>],
                 Append(instances,
                        scene_loader_process_node(node, parent_transform, ai)),
                 ai)

\* every out value starts as `= {}` and keeps that zero when Get finds no key
scene_loader_process_material(ai_mat, dir_path) ==
    LET get_texture(slot) ==
            IF Len(slot) = 0 THEN <<>>
            ELSE strncpy_s(PATH_BUFFER_SIZE, path_append(dir_path, slot[1]))
    IN  [name            |-> strncpy_s(PATH_BUFFER_SIZE,
                                 IF Len(ai_mat.name) = 1 THEN ai_mat.name[1] ELSE <<>>),
         base_color      |-> IF Len(ai_mat.diffuse) = 1
                             THEN ai_mat.diffuse[1] ELSE <<0, 0, 0, 0>>,
         metallic_factor |-> IF Len(ai_mat.reflectivity) = 1
                             THEN ai_mat.reflectivity[1] ELSE 0,
         roughness_factor |-> IF Len(ai_mat.roughness) = 1
                              THEN ai_mat.roughness[1] ELSE 0,
         emissive_color  |-> IF Len(ai_mat.emissive) = 1
                             THEN ai_mat.emissive[1] ELSE <<0, 0, 0, 0>>,
         opaque_factor   |-> IF Len(ai_mat.opacity) = 1
                             THEN ai_mat.opacity[1] ELSE 0,
         diffuse_map     |-> get_texture(ai_mat.tex_diffuse),
         normal_map      |-> get_texture(ai_mat.tex_normals)]

\* the two assert()s of process_geometry
GeometryAsserts(ai_mesh) ==
    /\ \A i \in 1..ai_mesh.mNumFaces : Len(ai_mesh.mFaces[i]) = 3
    /\ HasNormals(ai_mesh)
    /\ HasTangentsAndBitangents(ai_mesh)

\* what process_geometry reads without a test: mIndices[0..2] of every
\* face, and mNormals, mTangents and mBitangents of every vertex
GeometryReadsOutside(ai_mesh) ==
    \/ \E i \in 1..ai_mesh.mNumFaces : Len(ai_mesh.mFaces[i]) < 3
    \/ /\ ai_mesh.mNumVertices > 0
       /\ \/ ai_mesh.mNormals = <<>>
          \/ ai_mesh.mTangents = <<>>
          \/ ai_mesh.mBitangents = <<>>

\* build: "debug" (assert active) or "release" (NDEBUG).  ub: what a read
\* outside an array does in the release build, "crash" or "junk"; junk is
\* the value such a read yields.
process_geometry(ai_mesh, build, ub, junk) ==
    LET vc == ai_mesh.mNumVertices
        Attr(arr, i) == IF arr = <<>> THEN <<junk, junk, junk>> ELSE arr[i]
        Idx(face, k) == IF k <= Len(face) THEN face[k] ELSE junk
    IN  IF build = "debug" /\ ~GeometryAsserts(ai_mesh)
        THEN [aborted |-> TRUE, vertices |-> <<>>, faces |-> <<>>]
        ELSE IF GeometryReadsOutside(ai_mesh) /\ ub = "crash"
        THEN [aborted |-> TRUE, vertices |-> <<>>, faces |-> <<>>]
        ELSE [aborted  |-> FALSE,
              vertices |-> [i \in 1..vc |->
                  [position  |-> ai_mesh.mVertices[i],
                   normal    |-> Attr(ai_mesh.mNormals, i),
                   tangent   |-> Attr(ai_mesh.mTangents, i),
                   bitangent |-> Attr(ai_mesh.mBitangents, i),
                   uv        |-> IF HasTextureCoords0(ai_mesh)
                                 THEN SubSeq(ai_mesh.mTextureCoords0[i], 1, 2)
                                 ELSE <<0, 0>>]],
              faces    |-> [i \in 1..ai_mesh.mNumFaces |->
                  <<Idx(ai_mesh.mFaces[i], 1), Idx(ai_mesh.mFaces[i], 2),
                    Idx(ai_mesh.mFaces[i], 3)>>]]

\* SceneLoader::load_scene on a loader made for mesh_path
scene_loader_load_scene(mesh_path, file, build, ub, junk) ==
    LET dir_path == parent_path(mesh_path)
        none == [instances_ |-> <<>>, geometries_ |-> <<>>, materials_ |-> <<>>]
    IN  IF file.status = "error"
        THEN [loader |-> none, ret |-> FALSE, threw |-> TRUE, crashed |-> FALSE]
        ELSE IF file.status # "regular" \/ Len(dir_path) = 0
        THEN [loader |-> none, ret |-> FALSE, threw |-> FALSE, crashed |-> FALSE]
        ELSE IF ImportFails(file.read)
        THEN [loader |-> none, ret |-> FALSE, threw |-> FALSE, crashed |-> FALSE]
        ELSE LET ai == file.read.scene[1]
                 geos == [i \in 1..ai.mNumMeshes |->
                            process_geometry(ai.mMeshes[i], build, ub, junk)]
             IN  [loader |->
                     [instances_  |-> scene_loader_node_queue(
                                         << <<ai.mRootNode, Identity4>> >>, <<>>, ai),
                      materials_  |-> [i \in 1..ai.mNumMaterials |->
                                         scene_loader_process_material(
                                             ai.mMaterials[i], dir_path)],
                      geometries_ |-> geos],
                  ret |-> TRUE, threw |-> FALSE,
                  crashed |-> \E i \in 1..ai.mNumMeshes : geos[i].aborted]

Builds == {"debug", "release"}
UbOutcomes == {"crash", "junk"}
JunkValues == {0, LargeIndex}

\* load_scene of lib.cpp: the loader is deleted and nullptr returned when
\* SceneLoader::load_scene fails
loader_load_scene ==
    /\ ~live
    /\ ~call.crashed
    /\ \E a \in LoaderLoadArgs, build \in Builds, ub \in UbOutcomes,
          junk \in JunkValues :
          LET r == scene_loader_load_scene(a.path[1], a.file, build, ub, junk)
              ok == r.ret /\ ~r.threw /\ ~r.crashed
          IN  /\ handle' = IF ok THEN SCENE_PTR ELSE NULL
              /\ live' = ok
              /\ importer' = IF ok THEN r.loader ELSE NewImporter
              /\ call' = [Call("load_scene", NULL, 0, IF ok THEN SCENE_PTR ELSE NULL)
                            EXCEPT !.path = a.path, !.file = <<a.file>>,
                                   !.threw = r.threw, !.crashed = r.crashed]
              /\ out' = NoOut
              /\ kept' = <<>>

loader_free_scene ==
    /\ ~call.crashed
    /\ call.op # "none"
    /\ \E loader \in HandleArgs :
        /\ live' = IF loader = NULL THEN live ELSE FALSE
        /\ importer' = IF loader = NULL THEN importer ELSE NewImporter
        /\ call' = Call("free_scene", loader, 0, 0)
        /\ out' = NoOut
        /\ kept' = <<>>
        /\ UNCHANGED handle

\* each getter returns a pointer to the stored struct, or nullptr
loader_get(op, container, index_args) ==
    /\ ~call.crashed
    /\ call.op # "none"
    /\ \E loader \in HandleArgs, idx \in index_args :
        LET found == loader # NULL /\ idx < Len(importer[container])
        IN  /\ call' = Call(op, loader, idx, IF found THEN DATA_PTR ELSE NULL)
            /\ kept' = IF found
                       THEN <<Kept(op, loader, importer[container][idx + 1])>>
                       ELSE <<>>
            /\ out' = NoOut
            /\ UNCHANGED <<handle, live, importer>>

loader_get_mat == loader_get("get_mat", "materials_", MaterialIndexArgs)
loader_get_mesh == loader_get("get_mesh", "geometries_", MeshIndexArgs)
loader_get_instance == loader_get("get_instance", "instances_", InstanceIndexArgs)

LoaderNext ==
    \/ loader_load_scene
    \/ loader_free_scene
    \/ loader_get_mat
    \/ loader_get_mesh
    \/ loader_get_instance

LoaderSpec == Init /\ [][LoaderNext]_vars

\* ---------------------------------------------------------------------
\* Properties
\* ---------------------------------------------------------------------
\* the last call was made on a handle whose load succeeded
OnLoaded == call.scene # NULL /\ importer.is_loaded_

\* caller memory o is as the caller handed it over
Untouched(o, poison) == o.ptr => o.mem = poison

NothingWritten ==
    /\ Untouched(out.material, PoisonMaterial)
    /\ Untouched(out.instance, PoisonInstance)
    /\ Untouched(out.mesh_info, PoisonMeshInfo)
    /\ Untouched(out.positions, PoisonMem(FloatCap))
    /\ Untouched(out.normals, PoisonMem(FloatCap))
    /\ Untouched(out.tangents, PoisonMem(FloatCap))
    /\ Untouched(out.uvs, PoisonMem(FloatCap))
    /\ Untouched(out.indices, PoisonMem(IndexCap))
    /\ Untouched(out.mesh_indices, PoisonMem(RefCap))
    /\ Untouched(out.material_indices, PoisonMem(RefCap))
    /\ Untouched(out.vertex_cnt, Poison)

\* what truvixx_mesh_get_info reports for the mesh of the last call
InfoOfCall ==
    mesh_get_info(call.scene, call.index, OutArg(TRUE, PoisonMeshInfo)).out.mem

\* the buffer a caller gets when src is copied into fresh memory of n cells
Filled(src, n) == memcpy(PoisonMem(n), src, Len(src))

C2_CountsAreLengths ==
    /\ call.op \in {"scene_mesh_count", "scene_material_count", "scene_instance_count"}
        => ~call.threw /\ ~call.crashed
    /\ call.op = "scene_mesh_count" =>
        call.ret = IF OnLoaded THEN Len(importer.scene_data.meshes) ELSE 0
    /\ call.op = "scene_material_count" =>
        call.ret = IF OnLoaded THEN Len(importer.scene_data.materials) ELSE 0
    /\ call.op = "scene_instance_count" =>
        call.ret = IF OnLoaded THEN Len(importer.scene_data.instances) ELSE 0

C2_MaterialCountOfLoaded ==
    /\ call.op = "scene_material_count"
    /\ OnLoaded
    /\ call.ret = MaxMeshes + 1

\* C3: on a loaded handle, truvixx_material_get and truvixx_instance_get
\* with index >= count return failure and leave the out struct unchanged.
C3_OutOfRangeWritesNothing ==
    /\ (call.op = "material_get" /\ OnLoaded
          /\ call.index >= scene_material_count(call.scene))
        => call.ret = 0 /\ Untouched(out.material, PoisonMaterial)
    /\ (call.op = "instance_get" /\ OnLoaded
          /\ call.index >= scene_instance_count(call.scene))
        => call.ret = 0 /\ Untouched(out.instance, PoisonInstance)

C3_MaterialIndexAtCount ==
    /\ call.op = "material_get"
    /\ OnLoaded
    /\ out.material.ptr
    /\ call.index = scene_material_count(call.scene)
    /\ call.index > 0

\* C4: every entry point called with a null handle returns its failure
\* value (0, NULL or the empty string) without dereferencing the handle
\* and without writing to any output argument.
C4_NullHandleSafe ==
    (call.scene = NULL /\ call.op \notin {"none", "scene_load"}) =>
        /\ ~call.null_deref
        /\ ~call.crashed
        /\ call.ret = 0
        /\ call.str = <<>>
        /\ NothingWritten

\* C5: each successful fill writes exactly the element count that
\* truvixx_mesh_get_info implies for that mesh (3 floats per vertex for
\* positions, normals and tangents, 2 per vertex for uvs, index_count
\* indices) and nothing past it; the batched fill does so for each non-null
\* buffer whose attribute the mesh has and writes nothing to the others.
C5_FillWritesImpliedCount ==
    call.ret = 1 =>
        /\ call.op = "mesh_fill_positions" =>
            WrittenPrefix(out.positions.mem, InfoOfCall.vertex_count * 3)
        /\ call.op = "mesh_fill_normals" =>
            WrittenPrefix(out.normals.mem, InfoOfCall.vertex_count * 3)
        /\ call.op = "mesh_fill_tangents" =>
            WrittenPrefix(out.tangents.mem, InfoOfCall.vertex_count * 3)
        /\ call.op = "mesh_fill_uvs" =>
            WrittenPrefix(out.uvs.mem, InfoOfCall.vertex_count * 2)
        /\ call.op = "mesh_fill_indices" =>
            WrittenPrefix(out.indices.mem, InfoOfCall.index_count)
        /\ call.op = "mesh_fill_all" =>
            /\ out.positions.ptr =>
                WrittenPrefix(out.positions.mem, InfoOfCall.vertex_count * 3)
            /\ out.normals.ptr =>
                WrittenPrefix(out.normals.mem,
                              InfoOfCall.has_normals * InfoOfCall.vertex_count * 3)
            /\ out.tangents.ptr =>
                WrittenPrefix(out.tangents.mem,
                              InfoOfCall.has_tangents * InfoOfCall.vertex_count * 3)
            /\ out.uvs.ptr =>
                WrittenPrefix(out.uvs.mem,
                              InfoOfCall.has_uvs * InfoOfCall.vertex_count * 2)
            /\ out.indices.ptr =>
                WrittenPrefix(out.indices.mem, InfoOfCall.index_count)

C5_NormalsOfLargestMesh ==
    /\ call.op = "mesh_fill_normals"
    /\ call.ret = 1
    /\ Written(out.normals.mem) = 3 * MaxVerts

\* C6: after a successful fill of attribute X of mesh i, in either build of
\* the interface, the buffer holds the stored array X of mesh i and no
\* other attribute.
C6_FillDeliversOwnAttribute ==
    (call.ret = 1 /\ OnLoaded /\ call.index < scene_mesh_count(call.scene)) =>
        LET mesh == importer.scene_data.meshes[call.index + 1]
        IN  /\ call.op = "mesh_fill_positions" =>
                out.positions.mem = Filled(mesh.positions, FloatCap)
            /\ call.op = "mesh_fill_normals" =>
                out.normals.mem = Filled(mesh.normals, FloatCap)
            /\ call.op \in {"mesh_fill_tangents", "engine_mesh_fill_tangents"} =>
                out.tangents.mem = Filled(mesh.tangents, FloatCap)
            /\ call.op = "mesh_fill_uvs" =>
                out.uvs.mem = Filled(mesh.uvs, FloatCap)
            /\ call.op = "mesh_fill_indices" =>
                out.indices.mem = Filled(mesh.indices, IndexCap)

\* C7: on a loaded handle, a valid mesh index and a non-null buffer, the
\* fill of normals, tangents or uvs succeeds exactly when
\* truvixx_mesh_get_info reports the matching has_* flag as 1.
C7_FlagDecidesFill ==
    (OnLoaded /\ call.index < scene_mesh_count(call.scene)) =>
        /\ (call.op = "mesh_fill_normals" /\ out.normals.ptr) =>
            call.ret = InfoOfCall.has_normals
        /\ (call.op = "mesh_fill_tangents" /\ out.tangents.ptr) =>
            call.ret = InfoOfCall.has_tangents
        /\ (call.op = "mesh_fill_uvs" /\ out.uvs.ptr) =>
            call.ret = InfoOfCall.has_uvs

C7_TangentsAbsentNormalsPresent ==
    /\ call.op = "mesh_fill_tangents"
    /\ OnLoaded
    /\ call.index < scene_mesh_count(call.scene)
    /\ out.tangents.ptr
    /\ call.ret = 0
    /\ InfoOfCall.has_normals = 1

\* C8: on a loaded handle and a valid mesh index, truvixx_mesh_fill_all
\* skips every null buffer and leaves in every non-null buffer what the
\* single-attribute fill of the same mesh writes into it.
C8_FillAllMatchesSingleFills ==
    (call.op = "mesh_fill_all" /\ OnLoaded
        /\ call.index < scene_mesh_count(call.scene)) =>
        LET fresh == OutArg(TRUE, PoisonMem(FloatCap))
            freshIdx == OutArg(TRUE, PoisonMem(IndexCap))
        IN  /\ out.positions = IF out.positions.ptr
                THEN mesh_fill_positions(call.scene, call.index, fresh).out
                ELSE NullArg
            /\ out.normals = IF out.normals.ptr
                THEN mesh_fill_normals(call.scene, call.index, fresh).out
                ELSE NullArg
            /\ out.tangents = IF out.tangents.ptr
                THEN mesh_fill_tangents(call.scene, call.index, fresh).out
                ELSE NullArg
            /\ out.uvs = IF out.uvs.ptr
                THEN mesh_fill_uvs(call.scene, call.index, fresh).out
                ELSE NullArg
            /\ out.indices = IF out.indices.ptr
                THEN mesh_fill_indices(call.scene, call.index, freshIdx).out
                ELSE NullArg

C8_MixedBuffers ==
    /\ call.op = "mesh_fill_all"
    /\ call.ret = 1
    /\ out.positions.ptr
    /\ ~out.normals.ptr
    /\ out.tangents.ptr
    /\ Written(out.tangents.mem) = 3 * MaxVerts
    /\ out.indices.ptr
    /\ Written(out.indices.mem) > 0

\* C9: on a loaded handle and a valid instance index,
\* truvixx_instance_get_refs succeeds, writes exactly mesh_count entries
\* (the mesh_count truvixx_instance_get reports) into each non-null array
\* and skips a null one; on an invalid handle or index it fails.
C9_RefsWriteMeshCount ==
    call.op = "instance_get_refs" =>
        IF OnLoaded /\ call.index < scene_instance_count(call.scene)
        THEN LET n == instance_get(call.scene, call.index,
                                   OutArg(TRUE, PoisonInstance)).out.mem.mesh_count
             IN  /\ call.ret = 1
                 /\ IF out.mesh_indices.ptr
                    THEN WrittenPrefix(out.mesh_indices.mem, n)
                    ELSE out.mesh_indices = NullArg
                 /\ IF out.material_indices.ptr
                    THEN WrittenPrefix(out.material_indices.mem, n)
                    ELSE out.material_indices = NullArg
        ELSE call.ret = 0

C9_OneArrayNull ==
    /\ call.op = "instance_get_refs"
    /\ call.ret = 1
    /\ ~out.mesh_indices.ptr
    /\ out.material_indices.ptr
    /\ Written(out.material_indices.mem) = 2

\* C10: in every loaded scene each instance has mesh_indices and
\* material_indices of one length, material_indices[i] is the material
\* index of source mesh mesh_indices[i], and every node gives an instance
\* with as many entries as the node has mesh slots (none for a node
\* without meshes).
C10_RefsIndexAligned ==
    importer.is_loaded_ =>
        LET ai == importer.ai_scene[1]
            insts == importer.scene_data.instances
        IN  /\ \A k \in 1..Len(insts) :
                /\ Len(insts[k].mesh_indices) = Len(insts[k].material_indices)
                /\ \A i \in 1..Len(insts[k].mesh_indices) :
                      insts[k].material_indices[i]
                        = ai.mMeshes[insts[k].mesh_indices[i] + 1].mMaterialIndex
            /\ \A j \in 1..Len(ai.nodes) :
                \E k \in 1..Len(insts) :
                    /\ insts[k].name = ai.nodes[j].mName
                    /\ Len(insts[k].mesh_indices) = ai.nodes[j].mNumMeshes
                    /\ Len(insts[k].material_indices) = ai.nodes[j].mNumMeshes

C10_NodesWithAndWithoutMeshes ==
    /\ importer.is_loaded_
    /\ \E k \in 1..Len(importer.scene_data.instances) :
          /\ Len(importer.scene_data.instances[k].mesh_indices) = 2
          /\ importer.scene_data.instances[k].material_indices
               # importer.scene_data.instances[k].mesh_indices
    /\ \E k \in 1..Len(importer.scene_data.instances) :
          Len(importer.scene_data.instances[k].mesh_indices) = 0

\* --- the node tree of a loaded scene ------------------------------------
\* the source scene and the instances of the importer
SourceScene == importer.ai_scene[1]
Instances == importer.scene_data.instances

\* the positions in Instances of the records made from node j
RecordsOf(j) ==
    {k \in 1..Len(Instances) : Instances[k].name = SourceScene.nodes[j].mName}

\* the position of the one record of node j
Pos(j) == CHOOSE k \in RecordsOf(j) : TRUE

IsChild(i, j) ==
    \E c \in 1..SourceScene.nodes[i].mNumChildren :
        SourceScene.nodes[i].mChildren[c] = j

ParentOf(j) == CHOOSE i \in 1..Len(SourceScene.nodes) : IsChild(i, j)

RECURSIVE Depth(_)
Depth(j) == IF j = SourceScene.mRootNode THEN 0 ELSE 1 + Depth(ParentOf(j))

\* the row-major matrix held by a stored 16-element transform
MatrixOf(m) == [r \in 1..4 |-> [c \in 1..4 |-> m[(c - 1) * 4 + r]]]

\* C11: a loaded scene has exactly one instance per node of the source
\* tree, mesh-less nodes and the root included; the root is instance 0,
\* every node precedes its children, every node of depth d precedes every
\* node of depth d+1, and the children of one node keep their order.
C11_OnePerNodeBreadthFirst ==
    importer.is_loaded_ =>
        LET nodes == SourceScene.nodes
        IN  /\ Len(Instances) = Len(nodes)
            /\ live => scene_instance_count(handle) = Len(nodes)
            /\ \A j \in 1..Len(nodes) : Cardinality(RecordsOf(j)) = 1
            /\ Pos(SourceScene.mRootNode) = 1
            /\ \A i, j \in 1..Len(nodes) :
                /\ IsChild(i, j) => Pos(i) < Pos(j)
                /\ Depth(i) < Depth(j) => Pos(i) < Pos(j)
            /\ \A i \in 1..Len(nodes) :
                \A c, d \in 1..nodes[i].mNumChildren :
                    c < d => Pos(nodes[i].mChildren[c]) < Pos(nodes[i].mChildren[d])

C11_BranchingTreeOfThreeLevels ==
    /\ importer.is_loaded_
    /\ Len(Instances) = MaxNodes
    /\ SourceScene.nodes[SourceScene.mRootNode].mNumChildren = 2
    /\ \E j \in 1..Len(SourceScene.nodes) : Depth(j) = 2
    /\ \E k \in 1..Len(Instances) : Len(Instances[k].mesh_indices) = 0

\* C12: in a loaded scene the world transform recorded for the root is the
\* root's local transform, and the one recorded for any other node is the
\* world transform recorded for its parent times the node's local
\* transform.
C12_WorldIsParentTimesLocal ==
    importer.is_loaded_ =>
        \A j \in 1..Len(SourceScene.nodes) :
            LET world == MatrixOf(Instances[Pos(j)].world_transform)
                local == SourceScene.nodes[j].mTransformation
            IN  IF j = SourceScene.mRootNode
                THEN world = local
                ELSE world = MatMul(
                        MatrixOf(Instances[Pos(ParentOf(j))].world_transform),
                        local)

C12_GrandchildTransform ==
    /\ importer.is_loaded_
    /\ \E j \in 1..Len(SourceScene.nodes) :
          /\ Depth(j) = 2
          /\ MatrixOf(Instances[Pos(j)].world_transform)
               # MatMul(SourceScene.nodes[j].mTransformation,
                        MatrixOf(Instances[Pos(ParentOf(j))].world_transform))

\* --- the meshes of a loaded scene ---------------------------------------
Meshes == importer.scene_data.meshes

RECURSIVE SumIndexCount(_)
SumIndexCount(meshes) ==
    IF Len(meshes) = 0 THEN 0
    ELSE index_count(meshes[1]) + SumIndexCount(Tail(meshes))

\* what truvixx_mesh_get_info reports for mesh k of the loaded handle
InfoOfMesh(k) ==
    mesh_get_info(SCENE_PTR, k, OutArg(TRUE, PoisonMeshInfo)).out.mem

\* C13: in a loaded scene every mesh has 3 positions per source vertex,
\* each of normals, tangents and bitangents is empty or has 3 values per
\* vertex, tangents and bitangents are present together, and the indices
\* come in threes, so that the index counts sum to a multiple of 3.
C13_MeshArraysConsistent ==
    importer.is_loaded_ =>
        /\ Len(Meshes) = SourceScene.mNumMeshes
        /\ \A k \in 1..Len(Meshes) :
            LET mesh == Meshes[k]
                vc == SourceScene.mMeshes[k].mNumVertices
            IN  /\ vertex_count(mesh) = vc
                /\ Len(mesh.positions) = 3 * vc
                /\ Len(mesh.normals) \in {0, 3 * vc}
                /\ Len(mesh.tangents) \in {0, 3 * vc}
                /\ Len(mesh.bitangents) \in {0, 3 * vc}
                /\ Len(mesh.tangents) = Len(mesh.bitangents)
                /\ Len(mesh.indices) % 3 = 0
        /\ SumIndexCount(Meshes) % 3 = 0

C13_MixedFacesNoTangents ==
    /\ importer.is_loaded_
    /\ \E k \in 1..Len(Meshes) :
          /\ Len(Meshes[k].normals) = 3 * MaxVerts
          /\ Len(Meshes[k].tangents) = 0
          /\ Len(Meshes[k].indices) > 0
          /\ \E f \in 1..SourceScene.mMeshes[k].mNumFaces :
                Len(SourceScene.mMeshes[k].mFaces[f]) # 3

\* C14: in a loaded scene a mesh whose source has no first UV channel has
\* an empty uvs sequence and has_uvs = 0 in truvixx_mesh_get_info; a mesh
\* whose source has one holds the u/v pair of every vertex.
C14_NoChannelNoUvs ==
    (live /\ importer.is_loaded_) =>
        \A k \in 1..Len(Meshes) :
            LET src == SourceScene.mMeshes[k]
            IN  IF HasTextureCoords0(src)
                THEN /\ Meshes[k].uvs = Flatten(src.mTextureCoords0, src.mNumVertices, 2)
                     /\ InfoOfMesh(k - 1).has_uvs = 1
                ELSE /\ Meshes[k].uvs = <<>>
                     /\ InfoOfMesh(k - 1).has_uvs = 0

\* --- fixed-size strings -------------------------------------------------
Materials == importer.scene_data.materials

\* field, handed over as poison, now holds the C string made from s: the
\* first min(Len(s), NAME_SIZE - 1) bytes of s, a null byte right after
\* them, and nothing else written inside or outside its NAME_SIZE bytes
HoldsCString(field, s) ==
    LET n == Min(Len(s), NAME_SIZE - 1)
    IN  /\ Len(field) = NAME_SIZE
        /\ \A i \in 1..n : field[i] = s[i]
        /\ field[n + 1] = 0
        /\ \A i \in (n + 2)..NAME_SIZE : field[i] = Poison

\* C15: a successful truvixx_material_get or truvixx_instance_get leaves in
\* each 256-byte string field the first min(len, 255) bytes of its source
\* string and a null byte after them, writes no byte outside the field,
\* and succeeds whatever the length of the source.
C15_StringsTruncatedNullTerminated ==
    /\ (call.op = "material_get" /\ OnLoaded /\ out.material.ptr
            /\ call.index < Len(Materials)) =>
        LET mat == Materials[call.index + 1]
        IN  /\ call.ret = 1
            /\ HoldsCString(out.material.mem.name, mat.name)
            /\ HoldsCString(out.material.mem.diffuse_map, mat.diffuse_map)
            /\ HoldsCString(out.material.mem.normal_map, mat.normal_map)
    /\ (call.op = "instance_get" /\ OnLoaded /\ out.instance.ptr
            /\ call.index < Len(Instances)) =>
        /\ call.ret = 1
        /\ HoldsCString(out.instance.mem.name, Instances[call.index + 1].name)

C15_NameLongerThanField ==
    /\ call.op = "material_get"
    /\ call.ret = 1
    /\ Len(Materials[call.index + 1].name) > NAME_SIZE
    /\ Len(Materials[call.index + 1].diffuse_map) \in 1..(NAME_SIZE - 1)
    /\ out.material.mem.name[NAME_SIZE] = 0

\* --- ownership -----------------------------------------------------------
\* C16: every value the caller holds from an earlier call is still valid
\* to read: it points into the storage of no scene object, or that scene
\* object has not been freed.
C16_KeptValuesStayValid ==
    \A i \in 1..Len(kept) :
        kept[i].owner # NULL => (live /\ handle = kept[i].owner)

MustFail(file) ==
    \/ file.status \in {"missing", "directory"}
    \/ /\ file.status = "regular"
       /\ \/ file.read.scene = <<>>
          \/ file.read.scene[1].mFlags = AI_SCENE_FLAGS_INCOMPLETE
          \/ file.read.scene[1].mRootNode = NULL

\* what a user of the importer can observe of it
Observable(imp) ==
    [scene     |-> imp.scene_data,
     is_loaded |-> imp.is_loaded_,
     error     |-> imp.error_msg_]

C19_LastLoadDecides ==
    call.op = "load" =>
        /\ Observable(importer)
             = Observable(load(NewImporter, call.path[1], call.file[1]).imp)
        /\ call.ret = 0 =>
             /\ importer.scene_data = EmptySceneData
             /\ ~importer.is_loaded_

C19_FailedReloadAfterSuccess ==
    /\ call.op = "load"
    /\ call.ret = 0
    /\ ~call.threw
    /\ kept = <<Kept("load", NULL, 1)>>
    /\ importer.scene_data = EmptySceneData
    /\ ~importer.is_loaded_

\* --- truvixx_scene_error --------------------------------------------------
\* C20: truvixx_scene_error returns the empty string for a null handle and
\* for a handle whose load succeeded, and a non-empty message for a handle
\* whose load failed.
C20_ErrorEmptyUnlessFailed ==
    call.op = "scene_error" =>
        IF call.scene = NULL \/ importer.is_loaded_
        THEN call.str = <<>>
        ELSE call.str # <<>>

C20_MessageOfFailedLoad ==
    /\ call.op = "scene_error"
    /\ call.scene # NULL
    /\ live
    /\ ~importer.is_loaded_
    /\ Len(call.str) > Len(AssimpError)
    /\ SubSeq(call.str, 1, Len(AssimpError)) = AssimpError

\* --- the two-valued result ------------------------------------------------
\* the entry points that return the int status of truvixx_api.hpp
StatusOps ==
    {"material_get", "instance_get", "instance_get_refs", "mesh_get_info",
     "mesh_fill_positions", "mesh_fill_normals", "mesh_fill_tangents",
     "mesh_fill_uvs", "mesh_fill_indices", "mesh_fill_all",
     "engine_mesh_fill_tangents"}

\* C21: every status-returning accessor returns 1 or 0, and no entry point,
\* truvixx_scene_load included, ends in an exception: a load that does not
\* succeed, whatever the reason, returns to the caller with a null handle or
\* with a handle that carries a non-empty error message.
C21_TwoValuedNoException ==
    /\ call.op \in StatusOps => call.ret \in {0, 1}
    /\ ~call.threw
    /\ (call.op = "scene_load" /\ ~importer.is_loaded_) =>
          \/ call.ret = NULL
          \/ scene_error(call.ret) # <<>>

\* --- two loads of one file ------------------------------------------------
\* the second scene was loaded from the path and the file of the first
SameFileTwice ==
    /\ call.op = "scene_load"
    /\ ~call.threw
    /\ kept # <<>>
    /\ kept[1].kind = "first_scene"
    /\ call.path = FirstScene.path
    /\ call.file = FirstScene.file

LoadedByLastCall ==
    \/ call.op = "load" /\ call.ret = 1
    \/ call.op = "load_scene" /\ call.ret # NULL

\* the aiMaterials of the scene that load converted
SourceMaterials == call.file[1].read.scene[1].mMaterials

\* the numeric fields of the stored materials, under the names of MaterialData
StoredMaterials ==
    IF call.op = "load"
    THEN importer.scene_data.materials
    ELSE [i \in 1..Len(importer.materials_) |->
            [base_color |-> importer.materials_[i].base_color,
             roughness  |-> importer.materials_[i].roughness_factor,
             metallic   |-> importer.materials_[i].metallic_factor,
             emissive   |-> importer.materials_[i].emissive_color,
             opacity    |-> importer.materials_[i].opaque_factor]]

\* C23: every numeric field of every stored material holds the fetched
\* value when the source material has the key and otherwise its default,
\* independently of the other keys: base color white, roughness 0.5,
\* metallic 0, emissive black, opacity 1; and a file that can be imported
\* loads whatever keys its materials lack.
C23_DefaultWhereKeyMissing ==
    /\ (call.op = "load" /\ ~call.threw /\ ~MustFail(call.file[1])) => call.ret = 1
    /\ LoadedByLastCall =>
        /\ Len(StoredMaterials) = Len(SourceMaterials)
        /\ \A i \in 1..Len(SourceMaterials) :
            LET src == SourceMaterials[i]
                mat == StoredMaterials[i]
            IN  /\ mat.base_color =
                     IF src.diffuse = <<>>
                     THEN <<DEFAULT_ONE, DEFAULT_ONE, DEFAULT_ONE, DEFAULT_ONE>>
                     ELSE src.diffuse[1]
                /\ mat.roughness =
                     IF src.roughness = <<>> THEN DEFAULT_ROUGHNESS
                     ELSE src.roughness[1]
                /\ mat.metallic =
                     IF src.reflectivity = <<>> THEN DEFAULT_ZERO
                     ELSE src.reflectivity[1]
                /\ IF src.emissive = <<>>
                   THEN SubSeq(mat.emissive, 1, 3)
                          = <<DEFAULT_ZERO, DEFAULT_ZERO, DEFAULT_ZERO>>
                   ELSE mat.emissive = src.emissive[1]
                /\ mat.opacity =
                     IF src.opacity = <<>> THEN DEFAULT_ONE ELSE src.opacity[1]

\* the two texture slots of a source material with the path stored for each
TextureSlots(i) ==
    { [slot |-> SourceMaterials[i].tex_diffuse,
       path |-> importer.scene_data.materials[i].diffuse_map],
      [slot |-> SourceMaterials[i].tex_normals,
       path |-> importer.scene_data.materials[i].normal_map] }

\* C24: for every material and both texture slots, the stored path is empty
\* exactly when the slot holds no texture; otherwise it is the first
\* texture's path resolved against the directory of the scene file, and it
\* is absolute whether the path given to load was absolute or relative.
C24_TexturePathsAbsolute ==
    (call.op = "load" /\ call.ret = 1) =>
        \A i \in 1..Len(SourceMaterials) : \A t \in TextureSlots(i) :
            /\ (t.path = <<>>) <=> (t.slot = <<>>)
            /\ t.slot # <<>> =>
                /\ t.path = path_append(parent_path(call.path[1]), t.slot[1])
                /\ is_absolute(t.path)

\* --- the documented result of truvixx_scene_load ------------------------------
\* the test main() makes on the handle before it reads the scene
main_detects_failure(scene) == scene = NULL

\* C25: a call of truvixx_scene_load that returns gives a scene handle when
\* the load succeeded and NULL when it failed, so the caller's test of the
\* handle for NULL finds exactly the failed loads.
C25_NullExactlyOnFailure ==
    (call.op = "scene_load" /\ ~call.threw) =>
        /\ importer.is_loaded_ => (call.ret # NULL /\ live /\ handle = call.ret)
        /\ ~importer.is_loaded_ => call.ret = NULL
        /\ main_detects_failure(call.ret) <=> ~importer.is_loaded_

\* --- the layout of world_transform ----------------------------------------
\* the row-major world matrix of node j: the local transforms from the
\* root down to j multiplied in that order
RECURSIVE WorldOf(_)
WorldOf(j) ==
    IF j = SourceScene.mRootNode
    THEN SourceScene.nodes[j].mTransformation
    ELSE MatMul(WorldOf(ParentOf(j)), SourceScene.nodes[j].mTransformation)

\* C26: for every node of a loaded scene and every row r and column c in
\* 0..3, element c*4 + r of the stored world_transform is element [r][c]
\* of the node's row-major world matrix: each column of the matrix lies in
\* four consecutive elements, column 0 first.
C26_ColumnsStoredContiguously ==
    importer.is_loaded_ =>
        \A j \in 1..Len(SourceScene.nodes) :
            LET dst == Instances[Pos(j)].world_transform
                W == WorldOf(j)
            IN  /\ Len(dst) = 16
                /\ \A r, c \in 0..3 : dst[(c * 4 + r) + 1] = W[r + 1][c + 1]

C26_TranslationInLastColumn ==
    /\ importer.is_loaded_
    /\ \E j \in 1..Len(SourceScene.nodes) :
          LET dst == Instances[Pos(j)].world_transform
              W == WorldOf(j)
          IN  /\ Depth(j) = 2
              /\ \E r, c \in 1..4 : W[r][c] # W[c][r]
              /\ W[1][4] # 0
              /\ dst[13] = W[1][4]
              /\ dst[4] = 0

\* --- faces ----------------------------------------------------------------
\* the aiMeshes of the scene that load converted
SourceMeshes == call.file[1].read.scene[1].mMeshes

\* the index array stored for mesh k by the load of the last call
StoredIndices(k) ==
    IF call.op = "load"
    THEN importer.scene_data.meshes[k].indices
    ELSE face_indices(importer.geometries_[k].faces)

\* the indices of the faces that have exactly three, in face order
RECURSIVE TriangleIndices(_)
TriangleIndices(faces) ==
    IF Len(faces) = 0 THEN <<>>
    ELSE (IF Len(faces[1]) = 3 THEN faces[1] ELSE <<>>)
         \o TriangleIndices(Tail(faces))

\* C27: a load ends without failure whatever the index counts of the faces,
\* and the index array stored for every mesh is the concatenation, in face
\* order, of the indices of the faces that have exactly three: its length
\* is three times the number of such faces, and every other face adds
\* nothing.
C27_OnlyTriangleFacesKept ==
    /\ (call.op = "load" /\ ~call.threw /\ ~MustFail(call.file[1])) => call.ret = 1
    /\ (call.op = "load_scene" /\ ~call.threw /\ ~MustFail(call.file[1])
          /\ \A k \in 1..Len(SourceMeshes) :
                HasNormals(SourceMeshes[k]) /\ HasTangentsAndBitangents(SourceMeshes[k]))
        => ~call.crashed
    /\ LoadedByLastCall =>
        \A k \in 1..Len(SourceMeshes) :
            /\ StoredIndices(k) = TriangleIndices(SourceMeshes[k].mFaces)
            /\ Len(StoredIndices(k))
                 = 3 * Cardinality({f \in 1..SourceMeshes[k].mNumFaces :
                                       Len(SourceMeshes[k].mFaces[f]) = 3})

\* --- the importer between calls ---------------------------------------------
\* C28: after construction and after every load() or clear() in any
\* sequence of calls on one SceneImporter: an importer that is not loaded
\* holds no meshes, materials or instances; an importer that is loaded has
\* an empty error message; and the importer is loaded exactly when the
\* most recent call was a load() that returned true.
C28_LoadedFlagAgreesWithData ==
    /\ ~importer.is_loaded_ => importer.scene_data = EmptySceneData
    /\ importer.is_loaded_ => importer.error_msg_ = <<>>
    /\ importer.is_loaded_ <=> (call.op = "load" /\ ~call.threw /\ call.ret = 1)

C28_ClearedAfterSuccessfulLoad ==
    /\ call.op = "clear"
    /\ kept = <<Kept("load", NULL, 1)>>
    /\ ~importer.is_loaded_
    /\ importer.scene_data = EmptySceneData
    /\ importer.error_msg_ = <<>>

\* --- failure leaves the caller's memory alone -------------------------------
\* C29: a get or fill accessor that returns failure, whether for a null or
\* failed handle, an index out of range, a null output pointer or an
\* attribute the mesh lacks, has written to none of the structs and buffers
\* the caller handed to it.
C29_FailureWritesNothing ==
    (call.op \in StatusOps /\ call.ret = 0) => NothingWritten

C29_AbsentAttributeBufferUntouched ==
    /\ call.op = "mesh_fill_tangents"
    /\ OnLoaded
    /\ call.index < scene_mesh_count(call.scene)
    /\ InfoOfCall.vertex_count > 0
    /\ out.tangents.ptr
    /\ call.ret = 0
    /\ out.tangents.mem = PoisonMem(FloatCap)

\* --- the result of the batched fill ---------------------------------------
\* C30: truvixx_mesh_fill_all fails exactly when the handle is null or its
\* load failed or the mesh index is out of range; on a loaded handle and a
\* valid index it succeeds for every combination of null and non-null
\* buffers, and a non-null buffer given for an attribute the mesh lacks is
\* left as it was.
C30_FillAllFailsOnlyOnHandleOrIndex ==
    call.op = "mesh_fill_all" =>
        IF OnLoaded /\ call.index < scene_mesh_count(call.scene)
        THEN /\ call.ret = 1
             /\ (out.normals.ptr /\ InfoOfCall.has_normals = 0)
                    => out.normals.mem = PoisonMem(FloatCap)
             /\ (out.tangents.ptr /\ InfoOfCall.has_tangents = 0)
                    => out.tangents.mem = PoisonMem(FloatCap)
             /\ (out.uvs.ptr /\ InfoOfCall.has_uvs = 0)
                    => out.uvs.mem = PoisonMem(FloatCap)
        ELSE call.ret = 0

C30_SuccessWithBufferForAbsentNormals ==
    /\ call.op = "mesh_fill_all"
    /\ OnLoaded
    /\ call.index < scene_mesh_count(call.scene)
    /\ call.ret = 1
    /\ InfoOfCall.vertex_count > 0
    /\ InfoOfCall.has_normals = 0
    /\ out.normals.ptr
    /\ out.normals.mem = PoisonMem(FloatCap)
    /\ out.positions.ptr
    /\ Written(out.positions.mem) > 0
    /\ ~out.indices.ptr

====
